---- MODULE Spec2Model ----
(***************************************************************************)
(* EFEM test programs: the sequence engine of EFEM_015.py (module-level    *)
(* connection state, process_received_message, EfemApp.run_sequence and    *)
(* _execute_sequence_thread), its receive path, and the client thread and  *)
(* flow engine of EFEM_022.py.                                             *)
(*                                                                         *)
(* Text is a sequence of symbols: the delimiters "#", "@", "$", ",", " "   *)
(* are symbols of their own, every other symbol is a word without          *)
(* delimiters.                                                             *)
(***************************************************************************)
EXTENDS Integers, Sequences, FiniteSets, TLC

\* ------------------------------------------------------------------ bounds
MaxRuns == 2
MaxQueue == 1
MaxSlots == 2

\* ------------------------------------------------------------ text helpers
None == <<"None">>

RECURSIVE LStrip(_, _)
LStrip(s, cs) ==
    IF s # <<>> /\ Head(s) \in cs THEN LStrip(Tail(s), cs) ELSE s

RECURSIVE RStrip(_, _)
RStrip(s, cs) ==
    IF s # <<>> /\ s[Len(s)] \in cs THEN RStrip(SubSeq(s, 1, Len(s) - 1), cs) ELSE s

\* str.strip(chars)
Strip(s, cs) == RStrip(LStrip(s, cs), cs)

\* index of the first occurrence of symbol c in s, 0 when absent
RECURSIVE FindFrom(_, _, _)
FindFrom(s, c, i) ==
    IF i > Len(s) THEN 0 ELSE IF s[i] = c THEN i ELSE FindFrom(s, c, i + 1)

Find(s, c) == FindFrom(s, c, 1)

\* str.split(sep): the fields between separators, at least one field
RECURSIVE Split(_, _)
Split(s, sep) ==
    LET k == Find(s, sep)
    IN  IF k = 0 THEN <<s>>
        ELSE <<SubSeq(s, 1, k - 1)>> \o Split(SubSeq(s, k + 1, Len(s)), sep)

StartsWith(s, p) == Len(s) >= Len(p) /\ SubSeq(s, 1, Len(p)) = p

\* str.lower() on the words the model uses
LowerSym(c) == IF c \in {"Wait", "WAIT"} THEN "wait" ELSE c

Lower(s) == [i \in 1..Len(s) |-> LowerSym(s[i])]

\* int(x.strip()) succeeds
IsInt(s) == Strip(s, {" "}) \in {<<"500">>, <<"100">>}

\* x in list
InList(x, l) == \E i \in 1..Len(l) : l[i] = x

\* ----------------------------------------------- sequence engine (EFEM_015)
VARIABLES
    is_connected,            \* module global
    efem_socket,             \* TRUE: a socket object, FALSE: None
    message_queue,           \* queue.Queue of <<"message", frame>> / <<"disconnect">>
    sequence_stop_flag,      \* threading.Event
    command_result_event,    \* threading.Event
    command_result,          \* None, "OK", "Error", "Timeout"
    waiting_for_response,
    last_sent_command_base,  \* None or a field
    run_button, stop_button, connect_button,   \* TRUE: tk.NORMAL
    ui_pending,              \* root.after(0, ...) button callbacks of a finished run
    main_pc,                 \* Tk main thread: "idle", "drain" (in check_queue), "disc"
    disc_pc,                 \* thread of disconnect_efem: "idle", "closing"
    report,                  \* closing line of a finished run, until its
                             \* callbacks ran: "none", "completed", "stopped"
    pc, cmds, cyc, idx, event_set, aborted,  \* per sequence thread
    noted                    \* per sequence thread, what happened to the step it
                             \* is in: "none", "wait_stop" (Stop pressed during
                             \* its Wait), "await_disc" (disconnect_efem ran
                             \* during its wait for a response)

\* what process_received_message wrote to the log for the frame it handled last
VARIABLES
    last_log,                \* [raw, kind, a, b, c]
    last_op,                 \* what touched the pending request last:
                             \* "none", "register", "process", "clear"
    corr_pc                  \* the waiting thread, seen alone: "top", "await"

\* the receive_data thread, seen alone
VARIABLES
    rx_all,                  \* the bytes the device sends on this connection
    rx_wire,                 \* those recv has not returned yet
    rx_buffer,               \* the local buffer of receive_data
    rx_alive                 \* the thread is in its loop

\* EFemClientThread (EFEM_022)
VARIABLES
    client_pc,               \* run(): "init", "loop", "recv", "stop" (in its
                             \* own stop(), before the test of line 243),
                             \* "stopping" (past the test), "cleanup", "done"
    gui_stop_pc,             \* stop() called by the GUI: "idle", "stopping"
                             \* (past the test of line 243)
    client_is_running,       \* self.is_running
    client_sock,             \* TRUE: a socket object, FALSE: None
    command_queue,           \* self.command_queue
    client_sent,             \* the commands written to the socket, in order
    command_to_send,         \* the command run() took from the queue, or None
    client_all,              \* the text the device sends on this connection
    client_wire,             \* the part recv has not returned yet
    received_data,           \* what received_data_signal carried, in order
    connection_status        \* what connection_status_signal carried, in order

\* FlowControlThread and the GUI of EFEM_022 around it
VARIABLES
    flow_pc,                 \* "none", "start", "send", "wait", "request",
                             \* "confirm", "slots", "finally"
    flow_step,               \* position in the recipe
    flow_is_running,         \* FlowControlThread.is_running
    efem_response_queue,     \* Queue(maxsize=1)
    user_confirmation_queue, \* Queue(maxsize=1)
    flow_code,               \* what flow_finished_signal carried, 0 before
    confirmation_visible,    \* the confirmation group is shown
    flow_buttons,            \* start and stop buttons: "off" (both disabled),
                             \* "idle" (start enabled), "running" (stop enabled)
    device_pending,          \* commands the device has read and not answered
    current_slot,            \* FlowControlThread.current_slot
    map_result_data,         \* FlowControlThread.map_result_data
    confirmation_request,    \* history: the request the panel is shown for
    recovery_pc,             \* "none", "start", "send", "wait", "failed",
                             \* "except", "finally"
    recovery_step,           \* position in the recovery recipe
    recovery_is_running,     \* RecoveryFlowThread.is_running
    recovery_response_queue, \* RecoveryFlowThread.efem_response_queue
    recovery_successful,     \* no final check has failed so far (708-710)
    recovery_code,           \* final_status_code of the recovery thread
    flow_sent,               \* history: what the flow thread has sent
    confirmed                \* history: the requests accepted by the user

\* the objects of the specifications that follow SpecFlow, "none" where the
\* specification has no such object
VARIABLES
    rft,                     \* a RecoveryFlowThread in run(): its fields
                             \* is_running and empty_slots_lp1, the locals
                             \* map_response, put_cmd, final_robot_presence
                             \* and final_aligner_presence (each with its
                             \* status), final_status_code, and
                             \*   pc: the call of run() that comes next,
                             \*   emitted: what send_efem_command_signal
                             \*     carried,
                             \*   no_slot_for: the wafer no empty slot was
                             \*     left for, "none", "robot" or "aligner",
                             \*   robot_reply: the reply of the device to
                             \*     CheckWaferPresence,Robot1
    listfile,                \* import_sequence and export_sequence of
                             \* EFEM_015: import_text (the characters of the
                             \* file read), sequence_listbox, export_text
                             \* (the characters written), pc; and, where a
                             \* sequence runs, commands, i and steps of
                             \* _execute_sequence_thread
    panel,                   \* update_status_from_response of EFEM_022:
                             \* response_data, efem_mode_label,
                             \* efem_door_label
    direct,                  \* the calls of send_command of EFEM_015 by the
                             \* panel buttons: calls (their number), written
                             \* (the commands sendall took), returned (what
                             \* the last call returned), write_failed (a
                             \* sendall has failed)
    abort,                   \* a command of the flow of EFEM_022 that the
                             \* device answers with an error: response (the
                             \* frame), log (what log_message and log_signal
                             \* carried), status (what _send_cmd_and_wait
                             \* returned), final_status_code, pc
    flow16                   \* the FlowControlThread of EFEM_016 and the
                             \* thread of the window that calls it

pendingVars == <<command_result_event, command_result,
                 waiting_for_response, last_sent_command_base>>

seqOnlyVars == <<is_connected, efem_socket, message_queue, sequence_stop_flag,
                 run_button, stop_button, connect_button,
                 ui_pending, main_pc, disc_pc, report,
                 pc, cmds, cyc, idx, event_set, aborted, noted>>

corrOnlyVars == <<last_log, last_op, corr_pc>>

recvVars == <<rx_all, rx_wire, rx_buffer, rx_alive>>

clientVars == <<client_pc, gui_stop_pc, client_is_running, client_sock,
                command_queue,
                client_sent, command_to_send, client_all, client_wire, received_data,
                connection_status>>

\* the wafer loop's own fields, and the history of the flow
slotVars == <<current_slot, map_result_data>>
sentVars == <<flow_sent, confirmed>>

flowVars == <<flow_pc, flow_step, flow_is_running, efem_response_queue,
              user_confirmation_queue, flow_code, confirmation_visible,
              flow_buttons, device_pending, slotVars, sentVars,
              confirmation_request, recovery_pc, recovery_step,
              recovery_is_running, recovery_response_queue,
              recovery_successful, recovery_code>>

laterVars == <<rft, listfile, panel, direct, abort, flow16>>

\* the variables of the specifications up to SpecFlow
earlierVars == <<pendingVars, seqOnlyVars, corrOnlyVars, recvVars, clientVars,
                 flowVars>>

nonSeqVars == <<corrOnlyVars, recvVars, clientVars, flowVars, laterVars>>

corrFrame == <<seqOnlyVars, recvVars, clientVars, flowVars, laterVars>>

vars == <<pendingVars, seqOnlyVars, corrOnlyVars, recvVars, clientVars,
          flowVars, laterVars>>

Runs == 1..MaxRuns

\* lines of the sequence list box
LoadLine == <<"Load", ",", "Loadport1">>
AtHomeLine == <<"@", "Home", ",", "Robot">>
EventLine == <<"Event", ",", "EFEM">>
WaitLine == <<"Wait", ",", "500">>
CommentLine == <<"#", "note">>

SeqChoices == {<<CommentLine, LoadLine, WaitLine>>}

\* frames the device sends
OkFrame == <<"Load", ",", "Loadport1", ",", "OK", "$">>
ErrFrame == <<"Load", ",", "Loadport1", ",", "Error", ",", "5006", "$">>

\* the replies the device sends while a sequence runs
DeviceFrames == {OkFrame, ErrFrame}

Disconnect == <<"disconnect">>
Message(f) == <<"message", f>>

\* ---- process_received_message: what one frame does to the pending request
Content(message) == Strip(message, {"#", "@", "$"})

Parts(message) == Split(Content(message), ",")

CmdEvent(message) == Parts(message)[1]

Details(message) == Tail(Parts(message))

\* line 173: the frame is the reply the sequence thread waits for
Matches(message) ==
    /\ waiting_for_response
    /\ last_sent_command_base # None
    /\ last_sent_command_base # <<>>
    /\ CmdEvent(message) = last_sent_command_base

IsErrorReply(message) == Matches(message) /\ InList(<<"Error">>, Details(message))

\* variant: any matching frame without Error taken as success
IsOkReplyLoose(message) ==
    Matches(message) /\ ~InList(<<"Error">>, Details(message))

IsOkReply(message) ==
    Matches(message) /\ ~InList(<<"Error">>, Details(message))
                     /\ InList(<<"OK">>, Details(message))

IsResponse(message) == IsErrorReply(message) \/ IsOkReply(message)

Field(l, i) == IF Len(l) >= i THEN l[i] ELSE <<"unknown">>

RECURSIVE Join(_, _)
Join(l, sep) ==
    IF l = <<>> THEN <<>>
    ELSE IF Len(l) = 1 THEN l[1]
    ELSE l[1] \o sep \o Join(Tail(l), sep)

\* variant: the first detail field taken as the code
ErrorCodeFirst(d) == IF d = <<>> THEN <<>> ELSE d[1]

\* line 175
ErrorCode(d) == IF d = <<>> THEN <<>> ELSE d[Len(d)]

\* line 184
ResultData(d) == Join(SelectSeq(d, LAMBDA x : x # <<"OK">>), <<",">>)

NoLog == [raw |-> <<>>, kind |-> "none", a |-> <<>>, b |-> <<>>, c |-> <<>>]

\* the lines process_received_message writes to the log (162, 177, 184, 199)
LogOf(message) ==
    LET d == Details(message)
    IN  IF IsErrorReply(message)
        THEN [raw |-> message, kind |-> "Error", a |-> CmdEvent(message),
              b |-> ErrorCode(d), c |-> <<>>]
        ELSE IF IsOkReply(message)
        THEN [raw |-> message, kind |-> "OK", a |-> CmdEvent(message),
              b |-> ResultData(d), c |-> <<>>]
        ELSE IF CmdEvent(message) = <<"Event">>
        THEN [raw |-> message, kind |-> "Event", a |-> Field(d, 1),
              b |-> Field(d, 2),
              c |-> IF Len(d) > 2 THEN Join(SubSeq(d, 3, Len(d)), <<",">>) ELSE <<>>]
        ELSE [raw |-> message, kind |-> "none", a |-> <<>>, b |-> <<>>, c |-> <<>>]

process_received_message(message) ==
    /\ IF IsResponse(message)
       THEN /\ command_result' = (IF IsErrorReply(message) THEN "Error" ELSE "OK")
            /\ command_result_event' = TRUE
            /\ waiting_for_response' = FALSE
            /\ last_sent_command_base' = None
       ELSE UNCHANGED <<command_result, command_result_event,
                        waiting_for_response, last_sent_command_base>>

\* lines 584-589: the sequence thread registers the reply it is about to wait for
RegisterPending(base) ==
    /\ command_result_event' = FALSE
    /\ command_result' = "None"
    /\ last_sent_command_base' = base
    /\ waiting_for_response' = TRUE

\* lines 599-600
ClearPending ==
    /\ waiting_for_response' = FALSE
    /\ last_sent_command_base' = None

\* ---- what the steps in progress went through (history, read by no action)
\* Stop pressed: the threads inside a Wait step
NoteStop ==
    noted' = [t \in Runs |-> IF pc[t] = "wait" THEN "wait_stop" ELSE noted[t]]

\* disconnect_efem ran: the threads blocked at line 598
NoteDisconnect ==
    noted' = [t \in Runs |-> IF pc[t] = "await" THEN "await_disc" ELSE noted[t]]

\* Event.set(): the threads blocked in command_result_event.wait are woken,
\* and their wait returns True whatever becomes of the event afterwards
Notify ==
    event_set' = [t \in Runs |-> event_set[t] \/ pc[t] = "await"]

threadVarsButEvent == <<report, pc, cmds, cyc, idx, aborted>>

\* ---- disconnect_efem, in two parts around its sleep and socket close
DisconnectFirst ==
    /\ is_connected' = FALSE
    /\ sequence_stop_flag' = TRUE
    /\ command_result_event' = TRUE

DisconnectSecond ==
    /\ efem_socket' = FALSE
    /\ waiting_for_response' = FALSE
    /\ last_sent_command_base' = None
    /\ command_result' = "None"

threadVars == <<report, pc, cmds, cyc, idx, event_set, aborted>>
buttonVars == <<run_button, stop_button, connect_button>>

\* ---- check_queue (855-876): the queued items in order, then the button refresh
ButtonRefresh(connected) ==
    LET is_running == ~run_button /\ stop_button
    IN  IF connected
        THEN /\ connect_button' = FALSE
             /\ UNCHANGED <<run_button, stop_button>>
        ELSE /\ connect_button' = TRUE
             /\ stop_button' = FALSE
             /\ run_button' = (IF is_running THEN TRUE ELSE run_button)

\* the handler returns when the queue is empty; until then it keeps the main thread
CheckQueueReturn(connected) ==
    IF Len(message_queue) = 1
    THEN main_pc' = "idle" /\ ButtonRefresh(connected)
    ELSE main_pc' = "drain" /\ UNCHANGED buttonVars

CheckQueueMsg ==
    /\ main_pc \in {"idle", "drain"}
    /\ message_queue # <<>>
    /\ Head(message_queue)[1] = "message"
    /\ process_received_message(Head(message_queue)[2])
    /\ message_queue' = Tail(message_queue)
    /\ CheckQueueReturn(is_connected)
    /\ UNCHANGED <<is_connected, efem_socket, sequence_stop_flag,
                   ui_pending, disc_pc>>
    /\ IF IsResponse(Head(message_queue)[2])
       THEN Notify ELSE UNCHANGED event_set
    /\ UNCHANGED threadVarsButEvent
    /\ UNCHANGED nonSeqVars
    /\ UNCHANGED noted

CheckQueueDisconnect ==
    /\ main_pc \in {"idle", "drain"}
    /\ message_queue # <<>>
    /\ Head(message_queue) = Disconnect
    /\ message_queue' = Tail(message_queue)
    /\ IF is_connected
       THEN /\ DisconnectFirst
            /\ NoteDisconnect
            /\ Notify
            /\ main_pc' = "disc"
            /\ UNCHANGED buttonVars
       ELSE /\ CheckQueueReturn(FALSE)
            /\ UNCHANGED <<is_connected, sequence_stop_flag, command_result_event>>
            /\ UNCHANGED <<noted, event_set>>
    /\ UNCHANGED <<efem_socket, command_result, waiting_for_response,
                   last_sent_command_base, ui_pending, disc_pc>>
    /\ UNCHANGED threadVarsButEvent
    /\ UNCHANGED nonSeqVars

CheckQueueDisconnectEnd ==
    /\ main_pc = "disc"
    /\ DisconnectSecond
    /\ IF message_queue = <<>>
       THEN main_pc' = "idle" /\ ButtonRefresh(is_connected)
       ELSE main_pc' = "drain" /\ UNCHANGED buttonVars
    /\ UNCHANGED <<is_connected, message_queue, sequence_stop_flag,
                   command_result_event, ui_pending, disc_pc>>
    /\ UNCHANGED threadVars
    /\ UNCHANGED nonSeqVars
    /\ UNCHANGED noted

CheckQueueButtons ==
    /\ main_pc \in {"idle", "drain"}
    /\ message_queue = <<>>
    /\ main_pc' = "idle"
    /\ ButtonRefresh(is_connected)
    /\ UNCHANGED <<is_connected, efem_socket, message_queue,
                   sequence_stop_flag, command_result_event, command_result,
                   waiting_for_response, last_sent_command_base,
                   ui_pending, disc_pc>>
    /\ UNCHANGED threadVars
    /\ UNCHANGED nonSeqVars
    /\ UNCHANGED noted

\* the root.after(0, ...) callbacks a finished run posted (lines 632-633)
UiCallbacks ==
    /\ main_pc = "idle"
    /\ ui_pending
    /\ ui_pending' = FALSE
    /\ run_button' = TRUE
    /\ stop_button' = FALSE
    /\ report' = "none"
    /\ UNCHANGED <<is_connected, efem_socket, message_queue,
                   sequence_stop_flag, command_result_event, command_result,
                   waiting_for_response, last_sent_command_base,
                   connect_button, main_pc, disc_pc>>
    /\ UNCHANGED <<pc, cmds, cyc, idx, event_set, aborted>>
    /\ UNCHANGED nonSeqVars
    /\ UNCHANGED noted

\* ---- the Connect and Disconnect buttons and their threads
\* connect (664-670) with connect_efem (36-75) in its thread
connect ==
    /\ main_pc = "idle"
    /\ connect_button
    /\ connect_button' = FALSE
    /\ IF is_connected
       THEN UNCHANGED <<is_connected, efem_socket, message_queue,
                        waiting_for_response, last_sent_command_base,
                        command_result, command_result_event>>
       ELSE \/ /\ efem_socket' = TRUE
               /\ is_connected' = TRUE
               /\ message_queue' = <<>>
               /\ waiting_for_response' = FALSE
               /\ last_sent_command_base' = None
               /\ command_result' = "None"
               /\ command_result_event' = FALSE
            \/ /\ efem_socket' = FALSE
               /\ is_connected' = FALSE
               /\ UNCHANGED <<message_queue, waiting_for_response,
                              last_sent_command_base, command_result,
                              command_result_event>>
    /\ UNCHANGED <<sequence_stop_flag, run_button, stop_button, ui_pending,
                   main_pc, disc_pc>>
    /\ UNCHANGED threadVars
    /\ UNCHANGED nonSeqVars
    /\ UNCHANGED noted

\* disconnect (676-679) and disconnect_efem up to line 85; the button is
\* enabled by check_queue while the link is up
disconnect ==
    /\ main_pc = "idle"
    /\ is_connected
    /\ disc_pc = "idle"
    /\ connect_button' = FALSE
    /\ DisconnectFirst
    /\ disc_pc' = "closing"
    /\ UNCHANGED <<efem_socket, message_queue, command_result,
                   waiting_for_response, last_sent_command_base,
                   run_button, stop_button, ui_pending, main_pc>>
    /\ Notify
    /\ UNCHANGED threadVarsButEvent
    /\ UNCHANGED nonSeqVars
    /\ NoteDisconnect

\* disconnect_efem, lines 86-102
disconnect_efem_end ==
    /\ disc_pc = "closing"
    /\ DisconnectSecond
    /\ disc_pc' = "idle"
    /\ UNCHANGED <<is_connected, message_queue, sequence_stop_flag,
                   command_result_event, ui_pending, main_pc>>
    /\ UNCHANGED buttonVars
    /\ UNCHANGED threadVars
    /\ UNCHANGED nonSeqVars
    /\ UNCHANGED noted

\* ---- receive_data (123-156), as seen by the queue: a complete frame, or the
\* end of the loop, whose notice is the last item the thread queues
ReceiveFrame ==
    /\ is_connected
    /\ ~InList(Disconnect, message_queue)
    /\ Len(message_queue) < MaxQueue
    /\ \E f \in DeviceFrames : message_queue' = Append(message_queue, Message(f))
    /\ UNCHANGED <<is_connected, efem_socket, sequence_stop_flag,
                   command_result_event, command_result, waiting_for_response,
                   last_sent_command_base, ui_pending, main_pc, disc_pc>>
    /\ UNCHANGED buttonVars
    /\ UNCHANGED threadVars
    /\ UNCHANGED nonSeqVars
    /\ UNCHANGED noted

ReceiveEnd ==
    /\ is_connected
    /\ ~InList(Disconnect, message_queue)
    /\ Len(message_queue) < MaxQueue
    /\ message_queue' = Append(message_queue, Disconnect)
    /\ UNCHANGED <<is_connected, efem_socket, sequence_stop_flag,
                   command_result_event, command_result, waiting_for_response,
                   last_sent_command_base, ui_pending, main_pc, disc_pc>>
    /\ UNCHANGED buttonVars
    /\ UNCHANGED threadVars
    /\ UNCHANGED nonSeqVars
    /\ UNCHANGED noted

\* ---- _execute_sequence_thread: how a line of the list is read
Stripped(line) == Strip(line, {" "})

StepKind(line) ==
    LET s == Stripped(line)
    IN  IF s = <<>> \/ StartsWith(s, <<"#">>) THEN "comment"
        ELSE IF StartsWith(Lower(s), <<"wait", ",">>)
        THEN (IF Len(Split(s, ",")) >= 2 /\ IsInt(Split(s, ",")[2])
              THEN "wait" ELSE "badwait")
        ELSE "invoke"

UseAt(line) == StartsWith(Stripped(line), <<"@">>)

ActualCmd(line) == IF UseAt(line) THEN Tail(Stripped(line)) ELSE Stripped(line)

BaseCmd(line) == Split(ActualCmd(line), ",")[1]

CurLine(t) == cmds[t][idx[t]]

globalsButFlag == <<is_connected, efem_socket, message_queue,
                    command_result_event, command_result, waiting_for_response,
                    last_sent_command_base, ui_pending, main_pc, disc_pc>>

\* ---- the Run and Stop buttons
run_sequence ==
    /\ main_pc = "idle"
    /\ run_button
    /\ is_connected
    /\ \E t \in Runs, commands \in SeqChoices, cycle \in BOOLEAN :
          /\ pc[t] = "idle"
          /\ \A u \in Runs : u < t => pc[u] # "idle"
          /\ pc' = [pc EXCEPT ![t] = "top"]
          /\ cmds' = [cmds EXCEPT ![t] = commands]
          /\ cyc' = [cyc EXCEPT ![t] = cycle]
          /\ idx' = [idx EXCEPT ![t] = 1]
          /\ event_set' = [event_set EXCEPT ![t] = FALSE]
          /\ aborted' = [aborted EXCEPT ![t] = FALSE]
          /\ noted' = [noted EXCEPT ![t] = "none"]
          /\ UNCHANGED report
    /\ sequence_stop_flag' = FALSE
    /\ run_button' = FALSE
    /\ stop_button' = TRUE
    /\ UNCHANGED connect_button
    /\ UNCHANGED globalsButFlag
    /\ UNCHANGED nonSeqVars

stop_sequence ==
    /\ main_pc = "idle"
    /\ stop_button
    /\ sequence_stop_flag' = TRUE
    /\ stop_button' = FALSE
    /\ UNCHANGED <<run_button, connect_button>>
    /\ UNCHANGED globalsButFlag
    /\ UNCHANGED threadVars
    /\ UNCHANGED nonSeqVars
    /\ NoteStop

\* ---- _execute_sequence_thread, one step per access to the shared state
Goto(t, label) == pc' = [pc EXCEPT ![t] = label]


\* break: the for loop is left, its index is gone
Break(t) ==
    /\ Goto(t, "outer")
    /\ idx' = [idx EXCEPT ![t] = 1]

\* continue, or the normal end of the step: the next line, if there is one
NextLine(t) ==
    IF idx[t] < Len(cmds[t])
    THEN Goto(t, "top") /\ idx' = [idx EXCEPT ![t] = idx[t] + 1]
    ELSE Break(t)

\* "sequence_stop_flag.set(); break" after a failed Invoke step
Abort(t) ==
    /\ aborted' = [aborted EXCEPT ![t] = TRUE]
    /\ sequence_stop_flag' = TRUE
    /\ Break(t)

\* lines 555-589: the checks at the head of the loop, then the line's kind;
\* an Invoke step registers its PendingRequest before it sends
SeqTop(t) ==
    /\ pc[t] = "top"
    /\ IF sequence_stop_flag
       THEN /\ Break(t)
            /\ UNCHANGED <<sequence_stop_flag, command_result_event,
                           command_result, last_sent_command_base,
                           waiting_for_response>>
       ELSE IF ~is_connected
       THEN /\ Break(t)
            /\ sequence_stop_flag' = TRUE
            /\ UNCHANGED <<command_result_event, command_result,
                           last_sent_command_base, waiting_for_response>>
       ELSE /\ UNCHANGED sequence_stop_flag
            /\ CASE StepKind(CurLine(t)) \in {"comment", "badwait"} ->
                        /\ NextLine(t)
                        /\ UNCHANGED <<command_result_event, command_result,
                                       last_sent_command_base, waiting_for_response>>
                 [] StepKind(CurLine(t)) = "wait" ->
                        /\ Goto(t, "wait")
                        /\ UNCHANGED <<idx, command_result_event, command_result,
                                       last_sent_command_base, waiting_for_response>>
                 [] OTHER ->
                        /\ RegisterPending(BaseCmd(CurLine(t)))
                        /\ Goto(t, "send")
                        /\ UNCHANGED idx
    /\ UNCHANGED <<cmds, cyc, event_set, aborted, report>>
    /\ UNCHANGED <<is_connected, efem_socket, message_queue,
                   ui_pending, main_pc, disc_pc>>
    /\ UNCHANGED buttonVars
    /\ UNCHANGED nonSeqVars
    /\ UNCHANGED noted

\* lines 570-576: a polling slice of the Wait step
SeqWait(t) ==
    /\ pc[t] = "wait"
    /\ IF sequence_stop_flag
       THEN Break(t)
       ELSE NextLine(t)
    /\ UNCHANGED <<cmds, cyc, event_set, aborted, report, sequence_stop_flag>>
    /\ UNCHANGED buttonVars
    /\ UNCHANGED globalsButFlag
    /\ UNCHANGED nonSeqVars
    /\ UNCHANGED noted

\* lines 592-593 with send_command (105-121)
SeqSend(t) ==
    /\ pc[t] = "send"
    /\ IF ~is_connected \/ ~efem_socket
       THEN /\ Abort(t)
            /\ UNCHANGED message_queue
       ELSE \/ /\ Goto(t, "await")
               /\ UNCHANGED <<message_queue, idx, aborted, sequence_stop_flag>>
            \/ /\ Len(message_queue) < MaxQueue
               /\ message_queue' = Append(message_queue, Disconnect)
               /\ Abort(t)
    /\ UNCHANGED <<cmds, cyc, event_set, report>>
    /\ UNCHANGED <<is_connected, efem_socket, command_result_event,
                   command_result, waiting_for_response, last_sent_command_base,
                   ui_pending, main_pc, disc_pc>>
    /\ UNCHANGED buttonVars
    /\ UNCHANGED nonSeqVars
    /\ UNCHANGED noted

\* line 598: the wait returns, woken or with the event found set (True), or
\* after its 20 seconds (False)
SeqAwait(t) ==
    /\ pc[t] = "await"
    /\ event_set' = [event_set EXCEPT ![t] = event_set[t] \/ command_result_event]
    /\ Goto(t, "result")
    /\ UNCHANGED <<cmds, cyc, idx, aborted, report, sequence_stop_flag>>
    /\ UNCHANGED buttonVars
    /\ UNCHANGED globalsButFlag
    /\ UNCHANGED nonSeqVars
    /\ UNCHANGED noted

\* variant: the event as it is when the outcome is read, not as wait() saw it
GotReplyNow(t) == command_result_event

\* line 605: what the wait returned
GotReply(t) == event_set[t]

\* lines 599-619: the PendingRequest is dropped, then the outcome is read
SeqResult(t) ==
    /\ pc[t] = "result"
    /\ ClearPending
    /\ IF sequence_stop_flag
       THEN /\ Break(t)
            /\ UNCHANGED <<aborted, sequence_stop_flag, command_result>>
       ELSE IF GotReply(t)
       THEN IF command_result = "OK"
            THEN /\ NextLine(t)
                 /\ UNCHANGED <<aborted, sequence_stop_flag, command_result>>
            ELSE /\ Abort(t)
                 /\ UNCHANGED command_result
       ELSE /\ command_result' = "Timeout"
            /\ Abort(t)
    /\ event_set' = [event_set EXCEPT ![t] = FALSE]
    /\ UNCHANGED <<cmds, cyc, report>>
    /\ UNCHANGED <<is_connected, efem_socket, message_queue,
                   command_result_event, ui_pending, main_pc, disc_pc>>
    /\ UNCHANGED buttonVars
    /\ UNCHANGED nonSeqVars
    /\ UNCHANGED noted

\* lines 622-623
SeqOuter(t) ==
    /\ pc[t] = "outer"
    /\ IF sequence_stop_flag \/ ~cyc[t]
       THEN Goto(t, "finally") /\ UNCHANGED idx
       ELSE Goto(t, "top") /\ idx' = [idx EXCEPT ![t] = 1]
    /\ UNCHANGED <<cmds, cyc, event_set, aborted, report, sequence_stop_flag>>
    /\ UNCHANGED buttonVars
    /\ UNCHANGED globalsButFlag
    /\ UNCHANGED nonSeqVars
    /\ UNCHANGED noted

\* lines 627-634
SeqFinally(t) ==
    /\ pc[t] = "finally"
    /\ waiting_for_response' = FALSE
    /\ last_sent_command_base' = None
    /\ ui_pending' = TRUE
    /\ report' = (IF sequence_stop_flag THEN "stopped" ELSE "completed")
    /\ Goto(t, "idle")
    /\ cmds' = [cmds EXCEPT ![t] = <<>>]
    /\ cyc' = [cyc EXCEPT ![t] = FALSE]
    /\ idx' = [idx EXCEPT ![t] = 1]
    /\ event_set' = [event_set EXCEPT ![t] = FALSE]
    /\ aborted' = [aborted EXCEPT ![t] = FALSE]
    /\ noted' = [noted EXCEPT ![t] = "none"]
    /\ UNCHANGED <<is_connected, efem_socket, message_queue,
                   sequence_stop_flag, command_result_event, command_result,
                   main_pc, disc_pc>>
    /\ UNCHANGED buttonVars
    /\ UNCHANGED nonSeqVars

\* ---- the state after construction, group by group
PendingIdle ==
    /\ command_result_event = FALSE
    /\ command_result = "None"
    /\ waiting_for_response = FALSE
    /\ last_sent_command_base = None

\* everything of the sequence engine but the link itself
SeqRestIdle ==
    /\ message_queue = <<>>
    /\ sequence_stop_flag = FALSE
    /\ run_button = TRUE
    /\ stop_button = FALSE
    /\ ui_pending = FALSE
    /\ main_pc = "idle"
    /\ disc_pc = "idle"
    /\ pc = [t \in Runs |-> "idle"]
    /\ cmds = [t \in Runs |-> <<>>]
    /\ cyc = [t \in Runs |-> FALSE]
    /\ idx = [t \in Runs |-> 1]
    /\ event_set = [t \in Runs |-> FALSE]
    /\ aborted = [t \in Runs |-> FALSE]
    /\ noted = [t \in Runs |-> "none"]
    /\ report = "none"

SeqIdle ==
    /\ is_connected = FALSE
    /\ efem_socket = FALSE
    /\ connect_button = TRUE
    /\ SeqRestIdle

CorrIdle ==
    /\ last_log = NoLog
    /\ last_op = "none"
    /\ corr_pc = "top"

RecvIdle ==
    /\ rx_all = <<>>
    /\ rx_wire = <<>>
    /\ rx_buffer = <<>>
    /\ rx_alive = FALSE

ClientIdle ==
    /\ client_pc = "init"
    /\ gui_stop_pc = "idle"
    /\ client_is_running = FALSE
    /\ client_sock = FALSE
    /\ command_queue = <<>>
    /\ client_sent = <<>>
    /\ command_to_send = None
    /\ client_all = <<>>
    /\ client_wire = <<>>
    /\ received_data = <<>>
    /\ connection_status = <<>>

FlowIdle ==
    /\ flow_pc = "none"
    /\ flow_step = 1
    /\ flow_is_running = FALSE
    /\ efem_response_queue = <<>>
    /\ user_confirmation_queue = <<>>
    /\ flow_code = 0
    /\ confirmation_visible = FALSE
    /\ flow_buttons = "off"
    /\ device_pending = <<>>
    /\ current_slot = 1
    /\ map_result_data = <<>>
    /\ confirmation_request = [type |-> "none", slot |-> 0]
    /\ recovery_pc = "none"
    /\ recovery_step = 1
    /\ recovery_is_running = FALSE
    /\ recovery_response_queue = <<>>
    /\ recovery_successful = TRUE
    /\ recovery_code = 101
    /\ flow_sent = <<>>
    /\ confirmed = {}

LaterIdle ==
    /\ rft = "none"
    /\ listfile = "none"
    /\ panel = "none"
    /\ direct = "none"
    /\ abort = "none"
    /\ flow16 = "none"

Init ==
    /\ PendingIdle
    /\ SeqIdle
    /\ CorrIdle
    /\ RecvIdle
    /\ ClientIdle
    /\ FlowIdle
    /\ LaterIdle

SeqNext ==
    \/ CheckQueueMsg
    \/ CheckQueueDisconnect
    \/ CheckQueueDisconnectEnd
    \/ CheckQueueButtons
    \/ UiCallbacks
    \/ connect
    \/ disconnect
    \/ disconnect_efem_end
    \/ ReceiveFrame
    \/ ReceiveEnd
    \/ run_sequence
    \/ stop_sequence
    \/ \E t \in Runs : SeqTop(t)
    \/ \E t \in Runs : SeqWait(t)
    \/ \E t \in Runs : SeqSend(t)
    \/ \E t \in Runs : SeqAwait(t)
    \/ \E t \in Runs : SeqResult(t)
    \/ \E t \in Runs : SeqOuter(t)
    \/ \E t \in Runs : SeqFinally(t)

SpecSeq == Init /\ [][SeqNext]_vars

\* C1: at most one request is outstanding: no two sequence threads are, at
\* the same time, between registering a request and dropping it.
C1_OnePendingRequest ==
    Cardinality({t \in Runs : pc[t] \in {"send", "await", "result"}}) <= 1

\* C4: a wait that ended without a reply yields Timeout and clears the
\* request, whatever arrived after the wait gave up; a frame handled when no
\* request is registered changes neither the result nor any run.
C4_TimeoutStands ==
    [][ /\ \A t \in Runs :
             (SeqResult(t) /\ ~event_set[t])
             => ( /\ pc'[t] = "outer"
                  /\ ~waiting_for_response'
                  /\ last_sent_command_base' = None
                  /\ sequence_stop_flag'
                  /\ ~sequence_stop_flag
                       => (command_result' = "Timeout" /\ aborted'[t]) )
        /\ (CheckQueueMsg /\ ~waiting_for_response)
             => UNCHANGED <<pendingVars, sequence_stop_flag, pc, idx, aborted>>
      ]_vars

\* a run that timed out although a reply was handled after its wait gave up
C4_Witness ==
    \E t \in Runs :
        /\ aborted[t]
        /\ pc[t] = "outer"
        /\ command_result = "Timeout"
        /\ command_result_event
        /\ is_connected
        /\ \A u \in Runs : u # t => pc[u] = "idle"

\* C10: once a step ended in Error, Timeout or send failure the run executes
\* no further step and does not close with the completed line.
C10_AbortEndsRun ==
    [][\A t \in Runs :
          aborted[t] => ( /\ pc'[t] \in {"outer", "finally", "idle"}
                          /\ (pc'[t] = "idle" => report' # "completed") )]_vars

\* C11: once Stop was pressed during a thread's Wait step, that thread runs
\* no later step (it leaves the list, the cycle included) and its closing
\* line is the stopped one, never the completed one.
C11_StopEndsWait ==
    [][\A t \in Runs :
          noted[t] = "wait_stop"
          => ( /\ pc'[t] \in {"wait", "outer", "finally", "idle"}
               /\ (pc[t] = "finally" /\ pc'[t] = "idle")
                    => report' = "stopped" )]_vars

\* C12: pressing Stop while a thread is blocked in its wait for a response
\* wakes that wait: the event the thread waits on is set when the handler
\* returns, so the thread needs neither a frame nor the timeout to go on.
C12_StopUnblocksAwait ==
    [][(stop_sequence /\ \E t \in Runs : pc[t] = "await")
       => command_result_event']_vars

\* C13: disconnect_efem, run while a thread waits for a response, sets the
\* event and the stop flag; that thread sends no further command and runs no
\* further step; and once disconnect_efem has returned and the thread has left
\* its wait, no request is registered.
C13_DisconnectEndsRun ==
    [][ /\ (is_connected /\ ~is_connected' /\ \E t \in Runs : pc[t] = "await")
           => (command_result_event' /\ sequence_stop_flag')
        /\ \A t \in Runs :
             noted[t] = "await_disc"
             => ( /\ pc'[t] \in {"await", "result", "outer", "finally", "idle"}
                  /\ ( /\ pc'[t] \in {"outer", "finally"}
                       /\ disc_pc' = "idle"
                       /\ main_pc' # "disc" )
                       => ~waiting_for_response' )
      ]_vars

\* C15: at most one sequence thread is alive at any time.
C15_OneRunActive ==
    Cardinality({t \in Runs : pc[t] # "idle"}) <= 1

\* C27: when the send of an Invoke step fails, the step ends with no
\* PendingRequest registered for its command, before the failure and after.
C27_NoWaitOnSendFailure ==
    [][\A t \in Runs :
          (pc[t] = "send" /\ pc'[t] = "outer") =>
              ~waiting_for_response /\ ~waiting_for_response']_vars

\* C28: with the cycle flag a run whose list ended starts again at the
\* first line unless the stop flag is set, leaves its loop only with the
\* stop flag set (stop, disconnect, Error, Timeout, send failure) and never
\* reports completed; without the flag the run ends when its list ended.
C28_CycleRestarts ==
    [][\A t \in Runs :
          /\ (pc[t] = "outer" /\ pc'[t] # "outer" /\ cyc[t]
                /\ ~sequence_stop_flag)
                => (pc'[t] = "top" /\ idx'[t] = 1)
          /\ (pc[t] = "outer" /\ pc'[t] = "finally" /\ cyc[t])
                => sequence_stop_flag
          /\ (pc[t] = "outer" /\ pc'[t] # "outer" /\ ~cyc[t])
                => pc'[t] = "finally"
          /\ (pc[t] = "finally" /\ pc'[t] = "idle" /\ cyc[t])
                => report' # "completed"]_vars

\* C36: the frame that resolves a PendingRequest is the reply to that very
\* request: the request is resolved only when its command has been written,
\* never by a frame that check_queue handles between the registration of
\* the request and the write of its command (such a frame answers an
\* earlier command or a manually executed one of the same name).
ResolvesPending ==
    /\ waiting_for_response /\ ~waiting_for_response'
    /\ ~command_result_event /\ command_result_event'

C36_ResolvedByOwnReply ==
    [][ResolvesPending => \A t \in Runs : pc[t] # "send"]_vars

\* ------------------------------------- the pending request, seen alone
\* One sequence thread registers and clears; frames of every shape arrive.
Prefixes == {<<>>, <<"#">>, <<"#", "@">>}

CorrLines == {LoadLine, AtHomeLine, EventLine}

\* the fields of the frames the device sends
CorrFieldLists ==
    { <<"Load", "Loadport1", "OK">>,
      <<"Load", "Loadport1", "Error", "5006">>,
      <<"Load", "Loadport1", "OK", "Error", "5007">>,
      <<"Load", "Error">>,
      <<"Load", "Loadport1", "Busy">>,
      <<"Home", "Robot", "OK", "7">>,
      <<"Home", "Robot", "Busy">>,
      <<"Event", "Loadport1", "FoupPlace", "1", "2">>,
      <<"Event", "EFEM", "Error">>,
      <<"Event", "EFEM", "OK">>,
      <<"Event">> }

MkFrame(pre, fs) ==
    pre \o Join([i \in 1..Len(fs) |-> <<fs[i]>>], <<",">>) \o <<"$">>

HasToken(fs, tok) == \E i \in 2..Len(fs) : fs[i] = tok

CorrRegister(line) ==
    /\ corr_pc = "top"
    /\ RegisterPending(BaseCmd(line))
    /\ corr_pc' = "await"
    /\ last_op' = "register"
    /\ UNCHANGED last_log
    /\ UNCHANGED corrFrame

CorrProcess(pre, fs) ==
    /\ process_received_message(MkFrame(pre, fs))
    /\ last_log' = LogOf(MkFrame(pre, fs))
    /\ last_op' = "process"
    /\ UNCHANGED corr_pc
    /\ UNCHANGED corrFrame

CorrClear ==
    /\ corr_pc = "await"
    /\ ClearPending
    /\ corr_pc' = "top"
    /\ last_op' = "clear"
    /\ UNCHANGED <<command_result, command_result_event, last_log>>
    /\ UNCHANGED corrFrame

CorrNext ==
    \/ \E line \in CorrLines : CorrRegister(line)
    \/ \E pre \in Prefixes, fs \in CorrFieldLists : CorrProcess(pre, fs)
    \/ CorrClear

SpecCorr == Init /\ [][CorrNext]_vars

\* C5: a frame whose first field is the name of the outstanding request and
\* whose details hold the token Error resolves the request as Error, the code
\* logged is the frame's last field, and the request is cleared.
C5_ErrorReplyResolves ==
    [][\A pre \in Prefixes, fs \in CorrFieldLists :
          ( /\ CorrProcess(pre, fs)
            /\ waiting_for_response
            /\ last_sent_command_base = <<fs[1]>>
            /\ HasToken(fs, "Error") )
          => ( /\ command_result' = "Error"
               /\ command_result_event'
               /\ ~waiting_for_response'
               /\ last_sent_command_base' = None
               /\ last_log'.kind = "Error"
               /\ last_log'.b = <<fs[Len(fs)]>> )]_vars

C5_Witness ==
    /\ last_op = "process"
    /\ corr_pc = "await"
    /\ last_log.kind = "Error"
    /\ last_log.raw = MkFrame(<<>>, <<"Load", "Loadport1", "OK", "Error", "5007">>)
    /\ last_log.b = <<"5007">>
    /\ command_result = "Error"
    /\ ~waiting_for_response
    /\ last_sent_command_base = None

\* C6: a frame whose first field is Event is logged as an event and leaves the
\* pending request and the command result as they were, whatever is pending.
C6_EventNeverConsumed ==
    [][\A pre \in Prefixes, fs \in CorrFieldLists :
          (CorrProcess(pre, fs) /\ fs[1] = "Event")
          => (last_log'.kind = "Event" /\ UNCHANGED pendingVars)]_vars

\* C7: a frame that carries the name of the outstanding request but neither OK
\* nor Error leaves the request registered and the waiter's event unset.
C7_UnexpectedReplyKeepsWaiting ==
    [][\A pre \in Prefixes, fs \in CorrFieldLists :
          ( /\ CorrProcess(pre, fs)
            /\ waiting_for_response
            /\ last_sent_command_base = <<fs[1]>>
            /\ ~HasToken(fs, "OK")
            /\ ~HasToken(fs, "Error") )
          => UNCHANGED pendingVars]_vars

C7_Witness ==
    /\ last_op = "process"
    /\ corr_pc = "await"
    /\ last_log.raw = MkFrame(<<"#">>, <<"Load", "Loadport1", "Busy">>)
    /\ last_log.kind = "none"
    /\ waiting_for_response
    /\ last_sent_command_base = <<"Load">>
    /\ ~command_result_event
    /\ command_result = "None"

\* ------------------------------------- the receive thread, seen alone
MaxStream == 4

\* bytes: "a" an ASCII letter, "$" the terminator, "L" and "C" the lead and
\* the continuation byte of a two-byte UTF-8 character
RxBytes == {"a", "$", "L", "C"}

\* bytes.decode('utf-8') succeeds
RECURSIVE Decodable(_)
Decodable(bs) ==
    IF bs = <<>> THEN TRUE
    ELSE IF bs[1] \in {"a", "$"} THEN Decodable(Tail(bs))
    ELSE IF bs[1] = "L" /\ Len(bs) >= 2 /\ bs[2] = "C"
    THEN Decodable(SubSeq(bs, 3, Len(bs)))
    ELSE FALSE

\* the characters of a decodable byte string
RECURSIVE Decode(_)
Decode(bs) ==
    IF bs = <<>> THEN <<>>
    ELSE IF bs[1] = "L" THEN <<"LC">> \o Decode(SubSeq(bs, 3, Len(bs)))
    ELSE <<bs[1]>> \o Decode(Tail(bs))

\* lines 138-141: the frames cut from the buffer, and what stays in it
RECURSIVE BufferFrames(_)
BufferFrames(buf) ==
    LET k == Find(buf, "$")
    IN  IF k = 0 THEN <<>>
        ELSE <<SubSeq(buf, 1, k)>> \o BufferFrames(SubSeq(buf, k + 1, Len(buf)))

RECURSIVE BufferRest(_)
BufferRest(buf) ==
    LET k == Find(buf, "$")
    IN  IF k = 0 THEN buf ELSE BufferRest(SubSeq(buf, k + 1, Len(buf)))

RECURSIVE ByteStrings(_)
ByteStrings(n) ==
    IF n = 0 THEN {<<>>}
    ELSE ByteStrings(n - 1)
         \cup {Append(w, b) : w \in {v \in ByteStrings(n - 1) : Len(v) = n - 1},
                              b \in RxBytes}

\* the thread starts on an open link; the device sends well-formed UTF-8
RecvInit ==
    /\ PendingIdle
    /\ is_connected = TRUE
    /\ efem_socket = TRUE
    /\ connect_button = FALSE
    /\ SeqRestIdle
    /\ CorrIdle
    /\ rx_all \in {w \in ByteStrings(MaxStream) : w # <<>> /\ Decodable(w)}
    /\ rx_wire = rx_all
    /\ rx_buffer = <<>>
    /\ rx_alive = TRUE
    /\ ClientIdle
    /\ FlowIdle
    /\ LaterIdle

recvFrame == <<pendingVars, is_connected, efem_socket, sequence_stop_flag,
               run_button, stop_button, connect_button, ui_pending, main_pc,
               disc_pc, report, pc, cmds, cyc, idx, event_set, aborted, noted,
               corrOnlyVars, rx_all, clientVars, flowVars, laterVars>>

\* lines 132-141 and 149-156: recv returns the next n bytes
RecvChunk(n) ==
    /\ rx_alive
    /\ is_connected
    /\ efem_socket
    /\ n \in 1..Len(rx_wire)
    /\ rx_wire' = SubSeq(rx_wire, n + 1, Len(rx_wire))
    /\ LET data_chunk == SubSeq(rx_wire, 1, n)
           buffer == rx_buffer \o Decode(data_chunk)
       IN  IF Decodable(data_chunk)
           THEN /\ message_queue' = message_queue \o
                      [i \in 1..Len(BufferFrames(buffer)) |->
                          Message(BufferFrames(buffer)[i])]
                /\ rx_buffer' = BufferRest(buffer)
                /\ UNCHANGED rx_alive
           ELSE /\ message_queue' = Append(message_queue, Disconnect)
                /\ rx_alive' = FALSE
                /\ UNCHANGED rx_buffer
    /\ UNCHANGED recvFrame

\* lines 133-137: recv returns no bytes, the device closed the connection
RecvClosed ==
    /\ rx_alive
    /\ is_connected
    /\ efem_socket
    /\ rx_wire = <<>>
    /\ message_queue' = Append(message_queue, Disconnect)
    /\ rx_alive' = FALSE
    /\ UNCHANGED <<rx_wire, rx_buffer>>
    /\ UNCHANGED recvFrame

RecvNext ==
    \/ \E n \in 1..MaxStream : RecvChunk(n)
    \/ RecvClosed

SpecRecv == RecvInit /\ [][RecvNext]_vars

IsMessage(item) == item[1] = "message"

\* C8: however recv cuts the stream, once the thread has read all bytes or
\* has ended, the frames queued are those of the whole stream read at once,
\* and while the thread runs its buffer holds what follows the last terminator.
C8_ChunkingIndependence ==
    (rx_wire = <<>> \/ ~rx_alive) =>
        /\ SelectSeq(message_queue, IsMessage) =
              [i \in 1..Len(BufferFrames(Decode(rx_all))) |->
                  Message(BufferFrames(Decode(rx_all))[i])]
        /\ rx_alive => rx_buffer = BufferRest(Decode(rx_all))

\* --------------------------------------- EFemClientThread (EFEM_022)
MaxText == 3
MaxCommands == 2

\* characters of the incoming text: a letter, the terminator, the start
\* mark and a blank
TextChars == {"a", "$", "#", " "}

ClientCommands == {<<"GetStatus", ",", "EFEM">>, <<"Load", ",", "Loadport1">>}

RECURSIVE Texts(_)
Texts(n) ==
    IF n = 0 THEN {<<>>}
    ELSE Texts(n - 1)
         \cup {Append(w, c) : w \in {v \in Texts(n - 1) : Len(v) = n - 1},
                              c \in TextChars}

\* lines 186-196: the messages emitted for the text of one recv
PartMessage(part) ==
    LET message == Strip(part, {" "}) \o <<"$">>
    IN  IF StartsWith(message, <<"#">>) THEN Tail(message) ELSE message

RECURSIVE PartMessages(_)
PartMessages(parts) ==
    IF parts = <<>> THEN <<>>
    ELSE IF Strip(parts[1], {" "}) # <<>>
    THEN <<PartMessage(parts[1])>> \o PartMessages(Tail(parts))
    ELSE PartMessages(Tail(parts))

Emitted(raw_data) == PartMessages(Split(raw_data, "$"))

\* stop() past its test, lines 244-253
ClientStopped ==
    /\ client_is_running' = FALSE
    /\ command_queue' = <<>>
    /\ connection_status' = Append(connection_status, "Disconnected")

clientFrame == <<pendingVars, seqOnlyVars, corrOnlyVars, recvVars, client_all,
                 flowVars, laterVars>>

\* one connection, on which the device sends some text
ClientInit ==
    /\ PendingIdle
    /\ SeqIdle
    /\ CorrIdle
    /\ RecvIdle
    /\ client_pc = "init"
    /\ gui_stop_pc = "idle"
    /\ client_is_running = FALSE
    /\ client_sock = FALSE
    /\ command_queue = <<>>
    /\ client_sent = <<>>
    /\ command_to_send = None
    /\ client_all \in {w \in Texts(MaxText) : w # <<>>}
    /\ client_wire = client_all
    /\ received_data = <<>>
    /\ connection_status = <<>>
    /\ FlowIdle
    /\ LaterIdle

\* run() up to its loop: connect_to_efem, lines 116-139 and 165-166
ClientConnect ==
    /\ client_pc = "init"
    /\ \/ /\ client_sock' = TRUE
          /\ client_is_running' = TRUE
          /\ connection_status' = Append(connection_status, "Connected")
          /\ client_pc' = "loop"
       \/ /\ client_sock' = FALSE
          /\ connection_status' = Append(connection_status, "Error")
          /\ client_pc' = "done"
          /\ UNCHANGED client_is_running
    /\ UNCHANGED <<gui_stop_pc, command_queue, client_sent, command_to_send,
                   client_wire,
                   received_data>>
    /\ UNCHANGED clientFrame

\* send_command (141-144), called by the GUI while the thread runs
ClientQueueCommand(command) ==
    /\ client_is_running
    /\ Len(command_queue) + Len(client_sent)
          + (IF command_to_send = None THEN 0 ELSE 1) < MaxCommands
    /\ command_queue' = Append(command_queue, command)
    /\ UNCHANGED <<client_pc, gui_stop_pc, client_is_running, client_sock,
                   client_sent, command_to_send, client_wire,
                   received_data,
                   connection_status>>
    /\ UNCHANGED clientFrame

\* toggle_connection (1187-1190) calls stop(): the tests of lines 1187 and
\* 243 find the thread running
ClientStop ==
    /\ gui_stop_pc = "idle"
    /\ client_is_running
    /\ gui_stop_pc' = "stopping"
    /\ UNCHANGED <<client_pc, client_is_running, client_sock, command_queue,
                   client_sent, command_to_send, client_wire,
                   received_data,
                   connection_status>>
    /\ UNCHANGED clientFrame

\* the rest of the stop() the GUI called, lines 244-253
ClientStopEnd ==
    /\ gui_stop_pc = "stopping"
    /\ ClientStopped
    /\ gui_stop_pc' = "idle"
    /\ UNCHANGED <<client_pc, client_sock, client_sent, command_to_send,
                   client_wire,
                   received_data>>
    /\ UNCHANGED clientFrame

\* the test of line 243 in the stop() the thread called (lines 158, 204)
ClientOwnStop ==
    /\ client_pc = "stop"
    /\ client_pc' = IF client_is_running THEN "stopping" ELSE "cleanup"
    /\ UNCHANGED <<gui_stop_pc, client_is_running, client_sock,
                   command_queue, client_sent, command_to_send, client_wire,
                   received_data,
                   connection_status>>
    /\ UNCHANGED clientFrame

\* the rest of the stop() the thread called, then the break
ClientOwnStopEnd ==
    /\ client_pc = "stopping"
    /\ ClientStopped
    /\ client_pc' = "cleanup"
    /\ UNCHANGED <<gui_stop_pc, client_sock, client_sent, command_to_send,
                   client_wire,
                   received_data>>
    /\ UNCHANGED clientFrame

\* lines 168-171 and 148: the loop test, the command taken from the queue
\* and the test of _send; a command taken after stop() is not written
ClientLoopSend ==
    /\ client_pc = "loop"
    /\ IF ~client_is_running
       THEN /\ client_pc' = "cleanup"
            /\ UNCHANGED <<command_queue, command_to_send>>
       ELSE IF command_queue = <<>>
       THEN /\ client_pc' = "recv"
            /\ UNCHANGED <<command_queue, command_to_send>>
       ELSE /\ command_to_send' = Head(command_queue)
            /\ command_queue' = Tail(command_queue)
            /\ client_pc' = IF client_sock THEN "write" ELSE "cleanup"
    /\ UNCHANGED <<gui_stop_pc, client_is_running, client_sock, client_sent,
                   client_wire, received_data, connection_status>>
    /\ UNCHANGED clientFrame

\* lines 149-159: sendall writes the command, or raises and the thread
\* calls stop()
ClientWrite ==
    /\ client_pc = "write"
    /\ \/ /\ client_sent' = Append(client_sent, command_to_send)
          /\ client_pc' = "recv"
       \/ /\ client_pc' = "stop"
          /\ UNCHANGED client_sent
    /\ command_to_send' = None
    /\ UNCHANGED <<gui_stop_pc, client_is_running, client_sock,
                   command_queue, client_wire, received_data,
                   connection_status>>
    /\ UNCHANGED clientFrame

\* lines 177-206: select finds nothing to read, or recv returns the next n
\* characters
ClientRecv(n) ==
    /\ client_pc = "recv"
    /\ n \in 0..Len(client_wire)
    /\ client_wire' = SubSeq(client_wire, n + 1, Len(client_wire))
    /\ received_data' = received_data \o Emitted(SubSeq(client_wire, 1, n))
    /\ client_pc' = "loop"
    /\ UNCHANGED <<gui_stop_pc, client_is_running, client_sock,
                   command_queue, client_sent, command_to_send,
                   connection_status>>
    /\ UNCHANGED clientFrame

\* lines 202-205: recv returns no bytes, the thread calls stop()
ClientRecvClosed ==
    /\ client_pc = "recv"
    /\ client_wire = <<>>
    /\ client_pc' = "stop"
    /\ UNCHANGED <<gui_stop_pc, client_is_running, client_sock,
                   command_queue, client_sent, command_to_send, client_wire,
                   received_data,
                   connection_status>>
    /\ UNCHANGED clientFrame

\* lines 226-236
ClientCleanup ==
    /\ client_pc = "cleanup"
    /\ client_sock' = FALSE
    /\ connection_status' =
          IF client_is_running
          THEN Append(connection_status, "Disconnected")
          ELSE connection_status
    /\ client_is_running' = FALSE
    /\ client_pc' = "done"
    /\ UNCHANGED <<gui_stop_pc, command_queue, client_sent, command_to_send,
                   client_wire,
                   received_data>>
    /\ UNCHANGED clientFrame

ClientNext ==
    \/ ClientConnect
    \/ \E command \in ClientCommands : ClientQueueCommand(command)
    \/ ClientStop
    \/ ClientStopEnd
    \/ ClientOwnStop
    \/ ClientOwnStopEnd
    \/ ClientLoopSend
    \/ ClientWrite
    \/ \E n \in 0..MaxText : ClientRecv(n)
    \/ ClientRecvClosed
    \/ ClientCleanup

SpecClient == ClientInit /\ [][ClientNext]_vars

\* C9: once the thread has read all the text of the connection, the frames
\* it emitted are those of the text read at once: a frame that came in two
\* reads is emitted once, whole.
C9_SplitFrameEmittedWhole ==
    client_wire = <<>> => received_data = Emitted(client_all)

\* C38: a command is written to the socket only while is_running is true,
\* one command a step, the one the loop took from the head of the queue;
\* and the stop() that sets is_running to false leaves the queue empty.
WritesCommand == client_sent' # client_sent

StopSetsNotRunning ==
    client_is_running /\ ~client_is_running' /\ client_pc' # "done"

C38_NothingWrittenAfterStop ==
    [][/\ WritesCommand =>
             /\ client_is_running
             /\ client_sent' = Append(client_sent, command_to_send)
       /\ StopSetsNotRunning => command_queue' = <<>>]_vars

IsDisconnected(status) == status = "Disconnected"

\* C25: a connection that reached Connected emits the status Disconnected
\* exactly once when it closes, whether the GUI called stop() or the thread
\* found the connection gone, however the two interleave.
C25_DisconnectedOnce ==
    /\ Len(SelectSeq(connection_status, IsDisconnected)) <= 1
    /\ (client_pc = "done" /\ gui_stop_pc = "idle"
           /\ InList("Connected", connection_status))
          => Len(SelectSeq(connection_status, IsDisconnected)) = 1

\* ------------------------- FlowControlThread and its GUI (EFEM_022)
\* str.__contains__
HasSub(s, p) ==
    \E i \in 1..(Len(s) - Len(p) + 1) : SubSeq(s, i, i + Len(p) - 1) = p

GetStatusEfem == <<"GetStatus", ",", "EFEM">>

\* the commands of the manual panels the model clicks (line 936)
ManualCommands == {<<"GetStatus", ",", "Loadport1">>}

\* parse_map_result, lines 515-520; <<"parse_error">> stands for the text
\* the helper returns for a response it cannot read
parse_map_result(response) ==
    LET parts == Split(RStrip(Strip(response, {" "}), {"$"}), ",")
    IN  IF Len(parts) >= 4 /\ parts[3] = <<"OK">>
        THEN Join(SubSeq(parts, 4, Len(parts)), <<",">>)
        ELSE <<"parse_error">>

\* a mark for every slot, whatever the slot: the check that reads no index
AnySlotHasWafer(map_data, slot_index) ==
    /\ map_data # <<>>
    /\ map_data # <<"parse_error">>
    /\ \E i \in 1..Len(Split(map_data, ",")) :
          Split(map_data, ",")[i] # <<"0">>

\* check_slot_has_wafer, lines 529-544, with MaxSlots for self.max_slots
\* (line 273): the first entry of the map is the highest slot
check_slot_has_wafer(map_data, slot_index) ==
    IF map_data = <<>> \/ map_data = <<"parse_error">>
    THEN FALSE
    ELSE LET slots == Split(map_data, ",")
             map_index == MaxSlots - slot_index
         IN  IF Len(slots) = MaxSlots
             THEN IF 0 <= map_index /\ map_index < MaxSlots
                  THEN slots[map_index + 1]
                          \in {<<"1">>, <<"2">>, <<"3">>, <<"4">>, <<"5">>}
                  ELSE FALSE
             ELSE FALSE

\* run(), lines 385-477: the commands and confirmations in the order of the
\* code; the entries marked "body" are the wafer loop of lines 422-468
FlowRecipe ==
    << [kind |-> "cmd", part |-> "pre", type |-> "none",
        command |-> <<"ReadFoupID", ",", "Loadport1">>],
       [kind |-> "confirm", part |-> "pre", type |-> "RFID", command |-> <<>>],
       [kind |-> "cmd", part |-> "pre", type |-> "none",
        command |-> <<"Load", ",", "Loadport1">>],
       [kind |-> "cmd", part |-> "pre", type |-> "map",
        command |-> <<"GetMapResult", ",", "Loadport1">>],
       [kind |-> "confirm", part |-> "pre", type |-> "Map Result",
        command |-> <<>>],
       [kind |-> "slots", part |-> "head", type |-> "none", command |-> <<>>],
       [kind |-> "cmd", part |-> "body", type |-> "slot",
        command |-> <<"SmartGet", ",", "Robot1", ",", "UpArm", ",",
                      "Loadport1", ",">>],
       [kind |-> "cmd", part |-> "body", type |-> "none",
        command |-> <<"SmartPut", ",", "Robot1", ",", "UpArm", ",",
                      "Aligner1", ",", "1">>],
       [kind |-> "cmd", part |-> "body", type |-> "none",
        command |-> <<"Alignment", ",", "Aligner1">>],
       [kind |-> "cmd", part |-> "body", type |-> "none",
        command |-> <<"ReadID", ",", "OCR1">>],
       [kind |-> "confirm", part |-> "body", type |-> "OCR", command |-> <<>>],
       [kind |-> "cmd", part |-> "body", type |-> "none",
        command |-> <<"SmartGet", ",", "Robot1", ",", "UpArm", ",",
                      "Aligner1", ",", "1">>],
       [kind |-> "cmd", part |-> "last", type |-> "none",
        command |-> <<"SmartPut", ",", "Robot1", ",", "UpArm", ",",
                      "Stage1", ",", "1">>],
       [kind |-> "cmd", part |-> "post", type |-> "none",
        command |-> <<"Unload", ",", "Loadport1">>] >>

\* the f-string of line 434, with str() of a slot number; the other
\* commands are literals
FlowCommand(step, slot) ==
    IF FlowRecipe[step].type = "slot"
    THEN FlowRecipe[step].command
            \o <<(<<"1", "2", "3", "4", "5", "6", "7", "8", "9">>)[slot]>>
    ELSE FlowRecipe[step].command

\* RecoveryFlowThread.run, lines 643-742, with a device that holds no
\* wafer: "need" raises on a result that is not OK (644, 655, 679), "soft"
\* goes on and is judged at line 708, "emit" is sent without a wait (727),
\* "home" ends the flow whatever its result (730-736)
RecoveryRecipe ==
    << [kind |-> "need", command |-> <<"GetMapResult", ",", "Loadport1">>],
       [kind |-> "need",
        command |-> <<"CheckWaferPresence", ",", "Robot1">>],
       [kind |-> "need",
        command |-> <<"CheckWaferPresence", ",", "Aligner1">>],
       [kind |-> "soft",
        command |-> <<"CheckWaferPresence", ",", "Robot1">>],
       [kind |-> "soft",
        command |-> <<"CheckWaferPresence", ",", "Aligner1">>],
       [kind |-> "emit",
        command |-> <<"SignalTower", ",", "EFEM", ",", "Green", ",", "On">>],
       [kind |-> "home", command |-> <<"Home", ",", "EFEM">>] >>

StopRequested == <<"STOP_REQUESTED">>

\* QThread.isRunning() of the flow thread and of the recovery thread
FlowThreadRunning == flow_pc # "none"
RecoveryThreadRunning == recovery_pc # "none"

\* no thread is ever seen running
NoFlowIsRunning == FALSE

\* the test of lines 1252-1253 and 1279-1280
AFlowIsRunning == FlowThreadRunning \/ RecoveryThreadRunning

\* send_command_from_gui, lines 1239-1244
send_command_from_gui(command) ==
    IF client_is_running
    THEN command_queue' = Append(command_queue, command)
    ELSE UNCHANGED command_queue

\* FlowControlThread.set_efem_response, lines 282-288
set_efem_response(data) == efem_response_queue' = <<data>>

\* handle_event, lines 1436-1501: what it sends
handle_event(event_data) ==
    LET parts == Split(event_data, ",")
    IN  IF /\ Len(parts) >= 3
           /\ parts[2] \in {<<"Loadport1">>, <<"Loadport2">>}
           /\ parts[3] = <<"FoupPlace">>
        THEN send_command_from_gui(<<"GetStatus", ",">> \o parts[2])
        ELSE UNCHANGED command_queue

\* handle_received_data, lines 1398-1421
handle_received_data(data) ==
    LET message == RStrip(Strip(data, {" "}), {"$"})
    IN  IF StartsWith(message, <<"Event", ",">>)
        THEN /\ handle_event(message)
             /\ UNCHANGED <<efem_response_queue, recovery_response_queue>>
        ELSE IF HasSub(message, <<",", "OK">>)
                \/ HasSub(message, <<",", "Error", ",">>)
        THEN /\ IF FlowThreadRunning
                THEN /\ set_efem_response(message \o <<"$">>)
                     /\ UNCHANGED recovery_response_queue
                ELSE IF RecoveryThreadRunning
                THEN /\ recovery_response_queue' = <<message \o <<"$">>>>
                     /\ UNCHANGED efem_response_queue
                ELSE UNCHANGED <<efem_response_queue,
                                 recovery_response_queue>>
             /\ UNCHANGED command_queue
        ELSE UNCHANGED <<efem_response_queue, recovery_response_queue,
                         command_queue>>

flowFrame == <<pendingVars, seqOnlyVars, corrOnlyVars, recvVars,
               client_pc, gui_stop_pc, client_sock, client_sent, command_to_send, client_all,
               client_wire, received_data, connection_status, laterVars>>

\* the fields of the flow thread but its queues
flowThreadVars == <<flow_pc, flow_step, flow_is_running, flow_code>>

\* the fields of the recovery thread but its queue
recoveryThreadVars == <<recovery_pc, recovery_step, recovery_is_running,
                        recovery_successful, recovery_code>>

\* toggle_connection (1205-1222), the thread's connect and
\* update_connection_status("Connected") (1336-1343)
FlowToggleConnect ==
    /\ ~client_is_running
    /\ client_is_running' = TRUE
    /\ command_queue' = <<GetStatusEfem>>
    /\ device_pending' = <<>>
    /\ flow_buttons' = IF AFlowIsRunning THEN "running" ELSE "idle"
    /\ UNCHANGED <<flowThreadVars, efem_response_queue,
                   user_confirmation_queue, confirmation_visible, confirmation_request,
                   slotVars, sentVars, recoveryThreadVars,
                   recovery_response_queue>>
    /\ UNCHANGED flowFrame

\* toggle_connection (1190-1201) with EFemClientThread.stop
FlowToggleDisconnect ==
    /\ client_is_running
    /\ client_is_running' = FALSE
    /\ command_queue' = <<>>
    /\ flow_buttons' = "off"
    /\ UNCHANGED <<flowThreadVars, efem_response_queue,
                   user_confirmation_queue, confirmation_visible, confirmation_request,
                   device_pending, slotVars, sentVars, recoveryThreadVars,
                   recovery_response_queue>>
    /\ UNCHANGED flowFrame

\* a button of the manual panel
FlowManualCommand(command) ==
    /\ client_is_running
    /\ Len(command_queue) < MaxCommands
    /\ send_command_from_gui(command)
    /\ UNCHANGED <<flowThreadVars, efem_response_queue,
                   user_confirmation_queue, confirmation_visible, confirmation_request,
                   flow_buttons, device_pending, slotVars, sentVars,
                   recoveryThreadVars, recovery_response_queue,
                   client_is_running>>
    /\ UNCHANGED flowFrame

\* start_normal_flow, lines 1247-1271, with FlowControlThread.__init__
start_normal_flow ==
    /\ flow_buttons = "idle"
    /\ IF client_is_running /\ ~AFlowIsRunning
       THEN /\ flow_pc' = "start"
            /\ flow_step' = 1
            /\ flow_is_running' = FALSE
            /\ efem_response_queue' = <<>>
            /\ user_confirmation_queue' = <<>>
            /\ flow_code' = 0
            /\ current_slot' = 1
            /\ map_result_data' = <<>>
            /\ flow_sent' = <<>>
            /\ confirmed' = {}
            /\ flow_buttons' = "running"
       ELSE UNCHANGED <<flowThreadVars, efem_response_queue,
                        user_confirmation_queue, slotVars, sentVars,
                        flow_buttons>>
    /\ UNCHANGED <<confirmation_visible, confirmation_request, device_pending,
                   recoveryThreadVars, recovery_response_queue,
                   client_is_running, command_queue>>
    /\ UNCHANGED flowFrame

\* start_recovery_flow, lines 1274-1302, with RecoveryFlowThread.__init__;
\* reply is the answer to the question of line 1285
start_recovery_flow(reply) ==
    /\ flow_buttons = "idle"
    /\ IF client_is_running /\ ~AFlowIsRunning /\ reply
       THEN /\ recovery_pc' = "start"
            /\ recovery_step' = 1
            /\ recovery_is_running' = FALSE
            /\ recovery_response_queue' = <<>>
            /\ recovery_successful' = TRUE
            /\ recovery_code' = 101
            /\ flow_buttons' = "running"
       ELSE UNCHANGED <<recoveryThreadVars, recovery_response_queue,
                        flow_buttons>>
    /\ UNCHANGED <<flowThreadVars, efem_response_queue,
                   user_confirmation_queue, confirmation_visible, confirmation_request,
                   device_pending, slotVars, sentVars, client_is_running,
                   command_queue>>
    /\ UNCHANGED flowFrame

\* stop_current_flow (1306-1321) with FlowControlThread.stop (498-506) and
\* RecoveryFlowThread.stop (775-781)
stop_current_flow ==
    /\ flow_buttons = "running"
    /\ IF FlowThreadRunning
       THEN /\ flow_buttons' = "idle"
            /\ UNCHANGED <<recovery_is_running, recovery_response_queue>>
            /\ IF flow_is_running
               THEN /\ flow_is_running' = FALSE
                    /\ efem_response_queue' =
                          IF efem_response_queue = <<>>
                          THEN <<StopRequested>> ELSE efem_response_queue
                    /\ user_confirmation_queue' =
                          IF user_confirmation_queue = <<>>
                          THEN <<[ok |-> FALSE,
                                  request |-> [type |-> "none", slot |-> 0]]>>
                          ELSE user_confirmation_queue
               ELSE UNCHANGED <<flow_is_running, efem_response_queue,
                                user_confirmation_queue>>
       ELSE IF RecoveryThreadRunning
       THEN /\ flow_buttons' = "idle"
            /\ UNCHANGED <<flow_is_running, efem_response_queue,
                           user_confirmation_queue>>
            /\ IF recovery_is_running
               THEN /\ recovery_is_running' = FALSE
                    /\ recovery_response_queue' =
                          IF recovery_response_queue = <<>>
                          THEN <<StopRequested>>
                          ELSE recovery_response_queue
               ELSE UNCHANGED <<recovery_is_running,
                                recovery_response_queue>>
       ELSE UNCHANGED <<flow_buttons, flow_is_running, efem_response_queue,
                        user_confirmation_queue, recovery_is_running,
                        recovery_response_queue>>
    /\ UNCHANGED <<flow_pc, flow_step, flow_code, confirmation_visible,
                   confirmation_request, device_pending, slotVars, sentVars,
                   recovery_pc, recovery_step, recovery_successful,
                   recovery_code, client_is_running, command_queue>>
    /\ UNCHANGED flowFrame

\* confirm_data (1628-1643) with set_user_confirmation (290-296); the item
\* carries the request the panel showed when the button was clicked.  The
\* recovery thread has no set_user_confirmation, and no panel is shown
\* while it runs.
confirm_data(confirmed_ok) ==
    /\ confirmation_visible
    /\ IF FlowThreadRunning
       THEN /\ user_confirmation_queue' =
                  <<[ok |-> confirmed_ok, request |-> confirmation_request]>>
            /\ confirmation_visible' = FALSE
            /\ confirmation_request' = [type |-> "none", slot |-> 0]
       ELSE UNCHANGED <<user_confirmation_queue, confirmation_visible,
                        confirmation_request>>
    /\ UNCHANGED <<flowThreadVars, efem_response_queue,
                   flow_buttons, device_pending, slotVars, sentVars,
                   recoveryThreadVars, recovery_response_queue,
                   client_is_running, command_queue>>
    /\ UNCHANGED flowFrame

FrameName(text) == Split(text, ",")[1]

\* what the device can append to a command to answer it: an error, or OK,
\* and with OK a mark per slot, the highest slot first, for GetMapResult
ReplyTails(command) ==
    IF FrameName(command) = <<"GetMapResult">>
    THEN {<<",", "OK", ",">> \o Join(marks, <<",">>) :
             marks \in [1..MaxSlots -> {<<"0">>, <<"1">>}]}
         \cup {<<",", "Error", ",", "5004">>}
    ELSE {<<",", "OK">>, <<",", "Error", ",", "5004">>}

\* the client thread writes the next queued command, the device reads it
DeviceRead ==
    /\ client_is_running
    /\ command_queue # <<>>
    /\ Len(device_pending) < MaxCommands
    /\ device_pending' = Append(device_pending, Head(command_queue))
    /\ command_queue' = Tail(command_queue)
    /\ UNCHANGED <<flowThreadVars, efem_response_queue,
                   user_confirmation_queue, confirmation_visible, confirmation_request,
                   flow_buttons, slotVars, sentVars, recoveryThreadVars,
                   recovery_response_queue, client_is_running>>
    /\ UNCHANGED flowFrame

\* the device answers the oldest command it holds; the GUI handles the frame
DeviceReply ==
    /\ client_is_running
    /\ device_pending # <<>>
    /\ device_pending' = Tail(device_pending)
    /\ \E tail \in ReplyTails(Head(device_pending)) :
          handle_received_data(Head(device_pending) \o tail \o <<"$">>)
    /\ UNCHANGED <<flowThreadVars, user_confirmation_queue,
                   confirmation_visible, confirmation_request, flow_buttons, slotVars,
                   sentVars, recoveryThreadVars, client_is_running>>
    /\ UNCHANGED flowFrame

\* the device reports a carrier put on the load port
DeviceEvent ==
    /\ client_is_running
    /\ Len(command_queue) < MaxCommands
    /\ handle_received_data(<<"Event", ",", "Loadport1", ",", "FoupPlace", "$">>)
    /\ UNCHANGED <<flowThreadVars, user_confirmation_queue,
                   confirmation_visible, confirmation_request, flow_buttons,
                   device_pending, slotVars, sentVars, recoveryThreadVars,
                   client_is_running>>
    /\ UNCHANGED flowFrame

\* ---- FlowControlThread.run
FlowEnter(step) ==
    /\ flow_step' = step
    /\ IF step > Len(FlowRecipe)
       THEN flow_pc' = "finally" /\ flow_code' = 99
       ELSE /\ flow_pc' = CASE FlowRecipe[step].kind = "cmd" -> "send"
                            [] FlowRecipe[step].kind = "confirm" -> "request"
                            [] OTHER -> "slots"
            /\ UNCHANGED flow_code

\* raise RuntimeError (-1) or StopIteration (-2), caught at lines 479-489
FlowRaise(code) ==
    /\ flow_pc' = "finally"
    /\ flow_code' = code
    /\ UNCHANGED flow_step

\* the frame of a step of either thread
threadFrame == <<flow_buttons, device_pending, client_is_running>>

\* lines 387-392
FlowRun ==
    /\ flow_pc = "start"
    /\ flow_is_running' = TRUE
    /\ current_slot' = 1
    /\ FlowEnter(1)
    /\ UNCHANGED <<efem_response_queue, user_confirmation_queue,
                   confirmation_visible, confirmation_request, map_result_data,
                   sentVars, command_queue, recoveryThreadVars,
                   recovery_response_queue, threadFrame>>
    /\ UNCHANGED flowFrame

\* _send_cmd_and_wait up to its wait, lines 320-337
FlowSend ==
    /\ flow_pc = "send"
    /\ IF ~flow_is_running
       THEN FlowRaise(-1) /\ UNCHANGED <<command_queue, flow_sent>>
       ELSE /\ Len(command_queue) < MaxCommands
            /\ send_command_from_gui(FlowCommand(flow_step, current_slot))
            /\ flow_sent' =
                  Append(flow_sent, FlowCommand(flow_step, current_slot))
            /\ flow_pc' = "wait"
            /\ UNCHANGED <<flow_step, flow_code>>
    /\ UNCHANGED <<flow_is_running, efem_response_queue,
                   user_confirmation_queue, confirmation_visible, confirmation_request,
                   slotVars, confirmed, recoveryThreadVars,
                   recovery_response_queue, threadFrame>>
    /\ UNCHANGED flowFrame

\* _wait_for_efem_response (298-307) and the rest of _send_cmd_and_wait
\* (339-353): stopped, a response, or COMMAND_TIMEOUT; after an OK result
\* run() keeps the map (413) and, at the end of the loop body, moves the
\* slot counter on and goes back to the while (468, 422)
FlowWait ==
    /\ flow_pc = "wait"
    /\ IF ~flow_is_running
       THEN FlowRaise(-1) /\ UNCHANGED <<efem_response_queue, slotVars>>
       ELSE IF efem_response_queue # <<>>
       THEN /\ efem_response_queue' = <<>>
            /\ IF /\ Head(efem_response_queue) # StopRequested
                  /\ HasSub(Head(efem_response_queue), <<",", "OK">>)
               THEN /\ map_result_data' =
                          IF FlowRecipe[flow_step].type = "map"
                          THEN parse_map_result(Head(efem_response_queue))
                          ELSE map_result_data
                    /\ IF FlowRecipe[flow_step].part = "last"
                       THEN /\ current_slot' = current_slot + 1
                            /\ FlowEnter(CHOOSE i \in 1..Len(FlowRecipe) :
                                            FlowRecipe[i].part = "head")
                       ELSE /\ UNCHANGED current_slot
                            /\ FlowEnter(flow_step + 1)
               ELSE FlowRaise(-1) /\ UNCHANGED slotVars
       ELSE FlowRaise(-1) /\ UNCHANGED <<efem_response_queue, slotVars>>
    /\ UNCHANGED <<flow_is_running, user_confirmation_queue,
                   confirmation_visible, confirmation_request, sentVars, command_queue,
                   recoveryThreadVars, recovery_response_queue, threadFrame>>
    /\ UNCHANGED flowFrame

\* the request the flow makes at its step
FlowRequestAt(step, slot) == [type |-> FlowRecipe[step].type, slot |-> slot]

\* _request_user_confirm up to its wait (355-371) with
\* handle_confirmation_request (1622-1626)
FlowRequest ==
    /\ flow_pc = "request"
    /\ IF ~flow_is_running
       THEN /\ FlowRaise(-1)
            /\ UNCHANGED <<confirmation_visible, confirmation_request>>
       ELSE /\ confirmation_visible' = TRUE
            /\ confirmation_request' = FlowRequestAt(flow_step, current_slot)
            /\ flow_pc' = "confirm"
            /\ UNCHANGED <<flow_step, flow_code>>
    /\ UNCHANGED <<flow_is_running, efem_response_queue,
                   user_confirmation_queue, slotVars, sentVars,
                   command_queue, recoveryThreadVars,
                   recovery_response_queue, threadFrame>>
    /\ UNCHANGED flowFrame

\* any answer passes
AnyConfirmation(confirmation) == TRUE

\* the test of line 378
IsConfirmed(confirmation) == confirmation.ok

\* _wait_for_user_confirmation (309-318) and lines 373-383
FlowConfirm ==
    /\ flow_pc = "confirm"
    /\ IF ~flow_is_running
       THEN /\ FlowRaise(-1)
            /\ UNCHANGED <<user_confirmation_queue, confirmed>>
       ELSE IF user_confirmation_queue # <<>>
       THEN /\ user_confirmation_queue' = <<>>
            /\ confirmed' =
                  IF /\ Head(user_confirmation_queue).ok
                     /\ Head(user_confirmation_queue).request
                           = FlowRequestAt(flow_step, current_slot)
                  THEN confirmed \cup {Head(user_confirmation_queue).request}
                  ELSE confirmed
            /\ IF IsConfirmed(Head(user_confirmation_queue))
               THEN FlowEnter(flow_step + 1)
               ELSE FlowRaise(-1)
       ELSE /\ FlowRaise(-1)
            /\ UNCHANGED <<user_confirmation_queue, confirmed>>
    /\ UNCHANGED <<flow_is_running, efem_response_queue,
                   confirmation_visible, confirmation_request, slotVars, flow_sent,
                   command_queue, recoveryThreadVars,
                   recovery_response_queue, threadFrame>>
    /\ UNCHANGED flowFrame

\* one turn of the while of lines 422-431
FlowSlots ==
    /\ flow_pc = "slots"
    /\ IF current_slot > MaxSlots
       THEN /\ FlowEnter(CHOOSE i \in 1..Len(FlowRecipe) :
                            FlowRecipe[i].part = "post")
            /\ UNCHANGED current_slot
       ELSE IF ~flow_is_running
       THEN FlowRaise(-2) /\ UNCHANGED current_slot
       ELSE IF ~check_slot_has_wafer(map_result_data, current_slot)
       THEN /\ current_slot' = current_slot + 1
            /\ UNCHANGED flowThreadVars
       ELSE FlowEnter(flow_step + 1) /\ UNCHANGED current_slot
    /\ UNCHANGED <<flow_is_running, efem_response_queue,
                   user_confirmation_queue, confirmation_visible, confirmation_request,
                   map_result_data, sentVars, command_queue,
                   recoveryThreadVars, recovery_response_queue, threadFrame>>
    /\ UNCHANGED flowFrame

\* lines 490-495 with handle_flow_finished (1646-1662) and
\* on_flow_thread_finished (1380-1394), which drops the thread object; the
\* fields of the next thread are those of its __init__
FlowFinally ==
    /\ flow_pc = "finally"
    /\ flow_pc' = "none"
    /\ flow_step' = 1
    /\ flow_is_running' = FALSE
    /\ flow_code' = 0
    /\ efem_response_queue' = <<>>
    /\ user_confirmation_queue' = <<>>
    /\ current_slot' = 1
    /\ map_result_data' = <<>>
    /\ flow_sent' = <<>>
    /\ confirmed' = {}
    /\ flow_buttons' = "idle"
    /\ confirmation_visible' = FALSE
    /\ confirmation_request' = [type |-> "none", slot |-> 0]
    /\ UNCHANGED <<device_pending, client_is_running, command_queue,
                   recoveryThreadVars, recovery_response_queue>>
    /\ UNCHANGED flowFrame

\* ---- RecoveryFlowThread.run
recoveryFrame == <<flowThreadVars, efem_response_queue,
                   user_confirmation_queue, confirmation_request, slotVars, sentVars,
                   device_pending, client_is_running>>

RecoveryEnter(step) ==
    /\ recovery_step' = step
    /\ recovery_pc' = "send"
    /\ UNCHANGED recovery_code

\* what run() does with the result of _send_cmd_and_wait at its step
RecoveryResult(ok) ==
    LET kind == RecoveryRecipe[recovery_step].kind
    IN  CASE kind = "need" ->
               /\ IF ok THEN RecoveryEnter(recovery_step + 1)
                        ELSE /\ recovery_pc' = "except"
                             /\ UNCHANGED <<recovery_step, recovery_code>>
               /\ UNCHANGED recovery_successful
          [] kind = "soft" ->
               /\ recovery_successful' = (recovery_successful /\ ok)
               /\ IF RecoveryRecipe[recovery_step + 1].kind = "soft"
                     \/ (recovery_successful /\ ok)
                  THEN RecoveryEnter(recovery_step + 1)
                  ELSE /\ recovery_pc' = "failed"
                       /\ UNCHANGED <<recovery_step, recovery_code>>
          [] OTHER ->
               /\ recovery_pc' = "finally"
               /\ recovery_code' = 199
               /\ UNCHANGED <<recovery_step, recovery_successful>>

\* line 628
RecoveryRun ==
    /\ recovery_pc = "start"
    /\ recovery_is_running' = TRUE
    /\ RecoveryEnter(1)
    /\ UNCHANGED <<recovery_successful, recovery_response_queue,
                   command_queue, flow_buttons, confirmation_visible>>
    /\ UNCHANGED recoveryFrame
    /\ UNCHANGED flowFrame

\* _send_cmd_and_wait up to its wait (579-594), and the emit of line 727
RecoverySend ==
    /\ recovery_pc = "send"
    /\ IF RecoveryRecipe[recovery_step].kind = "emit"
       THEN /\ Len(command_queue) < MaxCommands
            /\ send_command_from_gui(RecoveryRecipe[recovery_step].command)
            /\ RecoveryEnter(recovery_step + 1)
            /\ UNCHANGED recovery_successful
       ELSE IF ~recovery_is_running
       THEN RecoveryResult(FALSE) /\ UNCHANGED command_queue
       ELSE /\ Len(command_queue) < MaxCommands
            /\ send_command_from_gui(RecoveryRecipe[recovery_step].command)
            /\ recovery_pc' = "wait"
            /\ UNCHANGED <<recovery_step, recovery_successful,
                           recovery_code>>
    /\ UNCHANGED <<recovery_is_running, recovery_response_queue,
                   flow_buttons, confirmation_visible>>
    /\ UNCHANGED recoveryFrame
    /\ UNCHANGED flowFrame

\* _wait_for_efem_response (569-577) and lines 596-612
RecoveryWait ==
    /\ recovery_pc = "wait"
    /\ IF ~recovery_is_running
       THEN RecoveryResult(FALSE) /\ UNCHANGED recovery_response_queue
       ELSE IF recovery_response_queue # <<>>
       THEN /\ recovery_response_queue' = <<>>
            /\ RecoveryResult(
                  /\ Head(recovery_response_queue) # StopRequested
                  /\ HasSub(Head(recovery_response_queue), <<",", "OK">>))
       ELSE RecoveryResult(FALSE) /\ UNCHANGED recovery_response_queue
    /\ UNCHANGED <<recovery_is_running, command_queue, flow_buttons,
                   confirmation_visible>>
    /\ UNCHANGED recoveryFrame
    /\ UNCHANGED flowFrame

\* lines 737-742
RecoveryFailed ==
    /\ recovery_pc = "failed"
    /\ Len(command_queue) < MaxCommands
    /\ send_command_from_gui(
          <<"SignalTower", ",", "EFEM", ",", "Red", ",", "Flash">>)
    /\ recovery_pc' = "except"
    /\ UNCHANGED <<recovery_step, recovery_is_running, recovery_successful,
                   recovery_code, recovery_response_queue, flow_buttons,
                   confirmation_visible>>
    /\ UNCHANGED recoveryFrame
    /\ UNCHANGED flowFrame

\* lines 747-756
RecoveryExcept ==
    /\ recovery_pc = "except"
    /\ Len(command_queue) < MaxCommands
    /\ send_command_from_gui(
          <<"SignalTower", ",", "EFEM", ",", "Red", ",", "Flash">>)
    /\ recovery_code' = -101
    /\ recovery_pc' = "finally"
    /\ UNCHANGED <<recovery_step, recovery_is_running, recovery_successful,
                   recovery_response_queue, flow_buttons,
                   confirmation_visible>>
    /\ UNCHANGED recoveryFrame
    /\ UNCHANGED flowFrame

\* lines 767-772 with handle_flow_finished (1646-1662) and
\* on_flow_thread_finished (1380-1394), which drops the thread object
RecoveryFinally ==
    /\ recovery_pc = "finally"
    /\ recovery_pc' = "none"
    /\ recovery_step' = 1
    /\ recovery_is_running' = FALSE
    /\ recovery_successful' = TRUE
    /\ recovery_code' = 101
    /\ recovery_response_queue' = <<>>
    /\ flow_buttons' = "idle"
    /\ confirmation_visible' = FALSE
    /\ UNCHANGED command_queue
    /\ UNCHANGED recoveryFrame
    /\ UNCHANGED flowFrame

FlowNext ==
    \/ FlowToggleConnect
    \/ FlowToggleDisconnect
    \/ \E command \in ManualCommands : FlowManualCommand(command)
    \/ start_normal_flow
    \/ \E reply \in BOOLEAN : start_recovery_flow(reply)
    \/ stop_current_flow
    \/ \E confirmed_ok \in BOOLEAN : confirm_data(confirmed_ok)
    \/ DeviceRead
    \/ DeviceReply
    \/ DeviceEvent
    \/ FlowRun
    \/ FlowSend
    \/ FlowWait
    \/ FlowRequest
    \/ FlowConfirm
    \/ FlowSlots
    \/ FlowFinally
    \/ RecoveryRun
    \/ RecoverySend
    \/ RecoveryWait
    \/ RecoveryFailed
    \/ RecoveryExcept
    \/ RecoveryFinally

SpecFlow == Init /\ [][FlowNext]_vars

\* C2: the response that ends the flow's wait for a command carries that
\* command's name; a response to any other command does neither satisfy
\* nor fail the wait.
C2_OnlyOwnResponseEndsWait ==
    [][( /\ FlowWait
         /\ flow_is_running
         /\ efem_response_queue # <<>>
         /\ Head(efem_response_queue) # StopRequested )
       => FrameName(Head(efem_response_queue))
             = FrameName(FlowCommand(flow_step, current_slot))]_vars

\* C3: while the command the flow waits for is with the device, no further
\* command is written to the device.
C3_OneCommandAtATime ==
    [][Len(device_pending') > Len(device_pending)
       => ~( /\ flow_pc = "wait"
             /\ InList(FlowCommand(flow_step, current_slot), device_pending) )]_vars

\* C14: when the connection closes while a flow thread waits for a response,
\* the wait is unblocked at that moment: the thread is stopped or its
\* response queue holds an item, whether the thread is the normal flow or
\* the recovery flow.
C14_DisconnectUnblocksWait ==
    [][(client_is_running /\ ~client_is_running')
       => /\ (flow_pc = "wait" /\ flow_is_running)
                => (~flow_is_running' \/ efem_response_queue' # <<>>)
          /\ (recovery_pc = "wait" /\ recovery_is_running)
                => (~recovery_is_running'
                    \/ recovery_response_queue' # <<>>)]_vars

\* C16: the normal flow thread and the recovery flow thread never run at
\* the same time, and no step creates a flow thread while either runs.
C16_OneFlowActive ==
    [][ /\ ~(FlowThreadRunning' /\ RecoveryThreadRunning')
        /\ (FlowThreadRunning \/ RecoveryThreadRunning)
              => /\ flow_pc # "start" => flow_pc' # "start"
                 /\ recovery_pc # "start" => recovery_pc' # "start" ]_vars

\* a start button is enabled while a flow thread still runs
C16_Witness ==
    /\ flow_buttons = "idle"
    /\ client_is_running
    /\ FlowThreadRunning \/ RecoveryThreadRunning

\* C17: a flow thread that ends after stop() was called on it while it ran
\* reports the Stopped code: -2 for the normal flow, -102 for the recovery
\* flow.
C17_StopEndsStopped ==
    [][ /\ ( /\ ~flow_is_running
             /\ flow_pc \in {"send", "wait", "request", "confirm", "slots"}
             /\ flow_pc' = "finally" )
           => flow_code' = -2
        /\ ( /\ ~recovery_is_running
             /\ recovery_pc \in {"send", "wait", "failed", "except"}
             /\ recovery_pc' = "finally" )
           => recovery_code' = -102 ]_vars

\* the command of line 434
LoadportGet(slot) ==
    FlowCommand(CHOOSE i \in 1..Len(FlowRecipe) : FlowRecipe[i].type = "slot",
                slot)

\* the order of the commands of one slot, lines 433-465
SlotOrder(slot) ==
    << LoadportGet(slot),
       <<"SmartPut", ",", "Robot1", ",", "UpArm", ",", "Aligner1", ",", "1">>,
       <<"Alignment", ",", "Aligner1">>,
       <<"ReadID", ",", "OCR1">>,
       <<"SmartGet", ",", "Robot1", ",", "UpArm", ",", "Aligner1", ",", "1">>,
       <<"SmartPut", ",", "Robot1", ",", "UpArm", ",", "Stage1", ",", "1">> >>

\* C18: the flow goes on from a command only when it takes that command's
\* OK reply from its queue; the commands of a slot follow each other in the
\* order SmartGet from Loadport1, SmartPut to Aligner1, Alignment, ReadID,
\* SmartGet from Aligner1, SmartPut to Stage1; a wait that ends otherwise
\* ends the run with code -1, and the ending run sends nothing.
C18_CommandsInOrder ==
    [][ /\ (flow_pc = "wait" /\ flow_pc' \in {"send", "request", "slots"})
              => /\ efem_response_queue # <<>>
                 /\ StartsWith(Head(efem_response_queue),
                               FlowCommand(flow_step, current_slot)
                                  \o <<",", "OK">>)
        /\ \A i \in 1..(Len(flow_sent') - 1) : \A slot \in 1..MaxSlots :
              \A k \in 1..(Len(SlotOrder(slot)) - 1) :
                 flow_sent'[i] = SlotOrder(slot)[k]
                    => flow_sent'[i + 1] = SlotOrder(slot)[k + 1]
        /\ (flow_pc = "wait" /\ flow_pc' = "finally") => flow_code' = -1
        /\ flow_pc = "finally" => flow_sent' \in {flow_sent, <<>>} ]_vars

MapMarksIn(map, slot) ==
    LET marks == Split(map, ",")
    IN  /\ map # <<>>
        /\ Len(marks) = MaxSlots
        /\ marks[MaxSlots + 1 - slot]
              \in {<<"1">>, <<"2">>, <<"3">>, <<"4">>, <<"5">>}

\* C20: a SmartGet from Loadport1 is sent only for a slot the slot map
\* marks as populated; these commands are sent in ascending order of their
\* slots, each once; every populated slot the loop has passed was sent; and
\* the turn of the loop that finds a slot empty sends nothing.
C20_PopulatedSlotsInOrder ==
    [][ /\ \A slot \in 1..MaxSlots :
              InList(LoadportGet(slot), flow_sent')
                 => /\ MapMarksIn(map_result_data', slot)
                    /\ slot <= current_slot'
        /\ \A a \in 1..MaxSlots : \A i \in 1..Len(flow_sent') :
              flow_sent'[i] = LoadportGet(a)
                 => \A b \in 1..MaxSlots : \A j \in (i + 1)..Len(flow_sent') :
                       flow_sent'[j] = LoadportGet(b) => a < b
        /\ \A slot \in 1..MaxSlots :
              (slot < current_slot' /\ MapMarksIn(map_result_data', slot))
                 => InList(LoadportGet(slot), flow_sent')
        /\ ( /\ flow_pc = "slots"
             /\ current_slot <= MaxSlots
             /\ flow_pc' # "slots" \/ current_slot' # current_slot
             /\ flow_pc' # "finally" )
              => IF MapMarksIn(map_result_data, current_slot)
                 THEN /\ flow_pc' = "send"
                      /\ FlowCommand(flow_step', current_slot')
                            = LoadportGet(current_slot)
                 ELSE /\ current_slot' = current_slot + 1
                      /\ UNCHANGED <<flow_sent, command_queue, flow_pc>> ]_vars

\* the loop is over for a map that has a populated and an empty slot
C20_Witness ==
    /\ current_slot > MaxSlots
    /\ flow_pc = "wait"
    /\ \E slot \in 1..MaxSlots : MapMarksIn(map_result_data, slot)
    /\ \E slot \in 1..MaxSlots : ~MapMarksIn(map_result_data, slot)
    /\ \E slot \in 1..MaxSlots : InList(LoadportGet(slot), flow_sent)

\* C21: the first command the normal flow sends is the status query of the
\* load port, and ReadFoupID is sent only after it.
C21_StatusQueryFirst ==
    flow_sent # <<>> => flow_sent[1] = <<"GetStatus", ",", "Loadport1">>

UnloadCommand == <<"Unload", ",", "Loadport1">>

\* the step in which a thread emits flow_finished_signal carries a code of
\* its kind and leaves is_running false, and nothing of the run follows it
FinishedWithCode ==
    /\ flow_pc = "finally" /\ flow_pc' # "finally" =>
          /\ flow_code \in {99, -1, -2}
          /\ flow_pc' = "none"
          /\ ~flow_is_running'
    /\ flow_pc = "none" => flow_pc' \in {"none", "start"}
    /\ recovery_pc = "finally" /\ recovery_pc' # "finally" =>
          /\ recovery_code \in {199, -101, -102}
          /\ recovery_pc' = "none"
          /\ ~recovery_is_running'
    /\ recovery_pc = "none" => recovery_pc' \in {"none", "start"}

\* the run takes the code 99 on the device's OK for Unload,Loadport1
CompletedOnUnloadOk ==
    flow_code # 99 /\ flow_code' = 99 =>
        /\ flow_pc = "wait"
        /\ flow_sent # <<>>
        /\ flow_sent[Len(flow_sent)] = UnloadCommand
        /\ efem_response_queue # <<>>
        /\ StartsWith(Head(efem_response_queue),
                      UnloadCommand \o <<",", "OK">>)

\* C34: a started run of either thread ends and emits flow_finished_signal
\* once, with 99, -1 or -2 for the normal flow and 199, -101 or -102 for the
\* recovery; 99 is emitted only when Unload,Loadport1 received OK, and
\* is_running is false afterwards.
C34_FinishedOnceWithCode ==
    [][FinishedWithCode /\ CompletedOnUnloadOk]_vars

\* C35: every response _send_cmd_and_wait returns for a command was handed
\* to the thread after the command was sent.  The wait returns what the queue
\* holds, so a command is sent with an empty queue: a response stored
\* earlier, while the thread awaited no device response, is not there to be
\* taken for its result.
C35_NoStaleResponse ==
    [][/\ (flow_pc = "send" /\ flow_pc' = "wait") =>
              efem_response_queue = <<>>
       /\ (recovery_pc = "send" /\ recovery_pc' = "wait") =>
              recovery_response_queue = <<>>]_vars

\* stop_current_flow has called stop() on the thread that is still alive:
\* it alone enables the start button (1320-1321) while a thread runs
StopWasCalled == flow_buttons = "idle"

\* the normal flow after a stop: no command sent, no code 99
FlowStopKept ==
    FlowThreadRunning /\ StopWasCalled =>
        /\ flow_sent' = flow_sent
        /\ flow_code' # 99

\* the recovery flow after a stop: no command sent to wait for, no code 199
RecoveryStopKept ==
    RecoveryThreadRunning /\ StopWasCalled =>
        /\ ~(recovery_pc = "send" /\ recovery_pc' = "wait")
        /\ recovery_code' # 199

\* C37: a stop request on a started flow is never lost: however stop()
\* interleaves with the thread, also when it runs before run() has set
\* is_running, the flow sends no new device command after the stop and
\* finishes without completing the recipe.
C37_StopNeverLost ==
    [][FlowStopKept /\ RecoveryStopKept]_vars

\* ------------------------ RecoveryFlowThread with wafers to place (EFEM_022)
\* every slot taken for empty, whatever the map says
AllSlots(map_data) == [k \in 1..MaxSlots |-> MaxSlots - k + 1]

\* find_empty_slots, lines 614-624, with MaxSlots for the 25 of the code:
\* entry i of the map (from 0) is slot 25 - i, the list starts at the top slot
find_empty_slots(map_data) ==
    IF map_data = <<>> \/ map_data = <<"parse_error">>
    THEN <<>>
    ELSE LET map_list == Split(map_data, ",")
             IsAbsent(slot) == map_list[MaxSlots - slot + 1] = <<"0">>
         IN  IF Len(map_list) = MaxSlots
             THEN SelectSeq([k \in 1..MaxSlots |-> MaxSlots - k + 1], IsAbsent)
             ELSE <<>>

\* _send_cmd_and_wait, lines 598-612: the pair it returns for what
\* _wait_for_efem_response gave it (None: the timeout)
send_cmd_result(response) ==
    IF response = StopRequested THEN <<None, "Stopped">>
    ELSE IF response = None THEN <<None, "Timeout">>
    ELSE IF HasSub(response, <<",", "OK">>) THEN <<response, "OK">>
    ELSE IF HasSub(response, <<",", "Error", ",">>) THEN <<None, "EFEM Error">>
    ELSE <<None, "Not OK">>

\* the replies of the device to a command of the recovery run: a map of
\* MaxSlots marks, the occupancy of both arms or of the aligner, or OK
OwnReplies(command) ==
    LET presence == {<<"Presence">>, <<"Absence">>}
    IN  IF FrameName(command) = <<"GetMapResult">>
        THEN {command \o <<",", "OK", ",">> \o Join(marks, <<",">>) \o <<"$">> :
                 marks \in [1..MaxSlots -> {<<"0">>, <<"1">>}]}
        ELSE IF command = <<"CheckWaferPresence", ",", "Robot1">>
        THEN {command \o <<",", "OK", ",">> \o arms[1] \o <<",">> \o arms[2]
                 \o <<"$">> : arms \in presence \X presence}
        ELSE IF command = <<"CheckWaferPresence", ",", "Aligner1">>
        THEN {command \o <<",", "OK", ",">> \o p \o <<"$">> : p \in presence}
        ELSE {command \o <<",", "OK", "$">>}

\* what _wait_for_efem_response can return while the command waits: the stop
\* mark, the timeout, and any frame handle_received_data (1497-1503) puts in
\* the queue: the command's reply, its error, or the reply to a manual command
Arrivals(command) ==
    {StopRequested, None}
        \cup OwnReplies(command)
        \cup {command \o <<",", "Error", ",", "5004", "$">>}
        \cup {c \o <<",", "OK", "$">> : c \in ManualCommands}

\* one call of _send_cmd_and_wait (579-612): without is_running nothing is
\* sent (581); a stop during the wait comes from stop() (775-781)
RftCall(command) ==
    IF ~rft.is_running
    THEN {[response |-> None, status |-> "Stopped",
           emitted |-> rft.emitted, running |-> FALSE]}
    ELSE {[response |-> send_cmd_result(a)[1],
           status |-> send_cmd_result(a)[2],
           emitted |-> Append(rft.emitted, command),
           running |-> a # StopRequested] : a \in Arrivals(command)}

\* response.strip().rstrip('$').split(','), lines 661, 684, 715, 719
PresenceParts(response) == Split(RStrip(Strip(response, {" "}), {"$"}), ",")

\* lines 662-663 and 716
robot_has_wafer(response) ==
    LET parts == PresenceParts(response)
    IN  /\ Len(parts) = 5
        /\ parts[3] = <<"OK">>
        /\ (parts[4] = <<"Presence">> \/ parts[5] = <<"Presence">>)

\* lines 685 and 720
aligner_has_wafer(response) ==
    LET parts == PresenceParts(response)
    IN  /\ Len(parts) = 4
        /\ parts[3] = <<"OK">>
        /\ parts[4] = <<"Presence">>

\* lines 672-673 and 698-699: f"SmartPut,Robot1,{arm},Loadport1,{target_slot}"
PutCommand(arm, target_slot) ==
    <<"SmartPut", ",", "Robot1", ",", arm, ",", "Loadport1", ",",
      (<<"1", "2", "3", "4", "5", "6", "7", "8", "9">>)[target_slot]>>

\* an error that ends the run as a completed one
CompletedCode(exception) == 199

\* the except clauses, lines 744-759
except_code(exception) ==
    IF exception = "StopIteration" THEN -102 ELSE -101

\* lines 708-722
recovery_is_successful(robot, aligner) ==
    IF robot[2] # "OK" \/ aligner[2] # "OK"
    THEN FALSE
    ELSE ~robot_has_wafer(robot[1]) /\ ~aligner_has_wafer(aligner[1])

\* RecoveryFlowThread.__init__ (554-559), the locals of run() unset
RftIdle ==
    [pc |-> "idle", is_running |-> FALSE, empty_slots_lp1 |-> <<>>,
     map_response |-> None, put_cmd |-> None,
     final_robot_presence |-> <<None, "None">>,
     final_aligner_presence |-> <<None, "None">>,
     final_status_code |-> 101, emitted |-> <<>>, no_slot_for |-> "none",
     robot_reply |-> None]

RftInit ==
    /\ PendingIdle
    /\ SeqIdle
    /\ CorrIdle
    /\ RecvIdle
    /\ ClientIdle
    /\ FlowIdle
    /\ rft = RftIdle
    /\ listfile = "none"
    /\ panel = "none"
    /\ direct = "none"
    /\ abort = "none"
    /\ flow16 = "none"

rftFrame == <<earlierVars, listfile, panel, direct, abort, flow16>>

RobotQuery == <<"CheckWaferPresence", ",", "Robot1">>

\* the thread after the call c of _send_cmd_and_wait
RftAfter(c) == [rft EXCEPT !.emitted = c.emitted, !.is_running = c.running]

\* start_recovery_flow creates the thread; run(), lines 628-640
RftStart ==
    /\ rft.pc = "idle"
    /\ rft' = [RftIdle EXCEPT !.pc = "map", !.is_running = TRUE]
    /\ UNCHANGED rftFrame

\* stop(), lines 775-781, between two calls of the run
RftStop ==
    /\ rft.pc # "idle"
    /\ rft.is_running
    /\ rft' = [rft EXCEPT !.is_running = FALSE]
    /\ UNCHANGED rftFrame

\* lines 643-650
RftMap ==
    /\ rft.pc = "map"
    /\ \E c \in RftCall(<<"GetMapResult", ",", "Loadport1">>) :
          rft' = IF c.status # "OK"
                 THEN [RftAfter(c) EXCEPT !.pc = "except"]
                 ELSE [RftAfter(c) EXCEPT
                          !.map_response = c.response,
                          !.empty_slots_lp1 =
                              find_empty_slots(parse_map_result(c.response)),
                          !.pc = "robot"]
    /\ UNCHANGED rftFrame

\* lines 654-673; the device answers the query it gets with reply, and the
\* frame the call returns is that reply or another of Arrivals
RftRobot ==
    /\ rft.pc = "robot"
    /\ \E c \in RftCall(RobotQuery), reply \in OwnReplies(RobotQuery) :
          LET after == [RftAfter(c) EXCEPT
                           !.robot_reply =
                               IF rft.is_running THEN reply ELSE None]
          IN
          /\ c.response \in OwnReplies(RobotQuery) => c.response = reply
          /\ rft' =
                 IF c.status # "OK"
                 THEN [after EXCEPT !.pc = "except"]
                 ELSE IF ~robot_has_wafer(c.response)
                 THEN [after EXCEPT !.pc = "aligner"]
                 ELSE IF rft.empty_slots_lp1 = <<>>
                 THEN [after EXCEPT !.pc = "except",
                                    !.no_slot_for = "robot"]
                 ELSE [after EXCEPT
                          !.pc = "robot_put",
                          !.put_cmd =
                              PutCommand(IF PresenceParts(c.response)[5]
                                               = <<"Presence">>
                                         THEN "UpArm" ELSE "LowArm",
                                         Head(rft.empty_slots_lp1)),
                          !.empty_slots_lp1 = Tail(rft.empty_slots_lp1)]
    /\ UNCHANGED rftFrame

\* lines 674-675 and 700-701
RftPut ==
    /\ rft.pc \in {"robot_put", "aligner_put"}
    /\ \E c \in RftCall(rft.put_cmd) :
          rft' = [RftAfter(c) EXCEPT
                     !.pc = IF c.status # "OK" THEN "except"
                            ELSE IF rft.pc = "robot_put" THEN "aligner"
                            ELSE "final_robot"]
    /\ UNCHANGED rftFrame

\* lines 678-689
RftAligner ==
    /\ rft.pc = "aligner"
    /\ \E c \in RftCall(<<"CheckWaferPresence", ",", "Aligner1">>) :
          rft' = [RftAfter(c) EXCEPT
                     !.pc = IF c.status # "OK" THEN "except"
                            ELSE IF aligner_has_wafer(c.response)
                            THEN "aligner_get"
                            ELSE "final_robot"]
    /\ UNCHANGED rftFrame

\* lines 691-699
RftAlignerGet ==
    /\ rft.pc = "aligner_get"
    /\ \E c \in RftCall(<<"SmartGet", ",", "Robot1", ",", "UpArm", ",",
                          "Aligner1", ",", "1">>) :
          rft' = IF c.status # "OK"
                 THEN [RftAfter(c) EXCEPT !.pc = "except"]
                 ELSE IF rft.empty_slots_lp1 = <<>>
                 THEN [RftAfter(c) EXCEPT !.pc = "except",
                                          !.no_slot_for = "aligner"]
                 ELSE [RftAfter(c) EXCEPT
                          !.pc = "aligner_put",
                          !.put_cmd =
                              PutCommand("UpArm", Head(rft.empty_slots_lp1)),
                          !.empty_slots_lp1 = Tail(rft.empty_slots_lp1)]
    /\ UNCHANGED rftFrame

\* line 706
RftFinalRobot ==
    /\ rft.pc = "final_robot"
    /\ \E c \in RftCall(<<"CheckWaferPresence", ",", "Robot1">>) :
          rft' = [RftAfter(c) EXCEPT
                     !.final_robot_presence = <<c.response, c.status>>,
                     !.pc = "final_aligner"]
    /\ UNCHANGED rftFrame

\* lines 707-727 and 738-742: the second final query, the verdict and the
\* signal tower
RftFinalAligner ==
    /\ rft.pc = "final_aligner"
    /\ \E c \in RftCall(<<"CheckWaferPresence", ",", "Aligner1">>) :
          rft' = IF recovery_is_successful(rft.final_robot_presence,
                                           <<c.response, c.status>>)
                 THEN [RftAfter(c) EXCEPT
                          !.final_aligner_presence = <<c.response, c.status>>,
                          !.emitted =
                              Append(c.emitted,
                                     <<"SignalTower", ",", "EFEM", ",",
                                       "Green", ",", "On">>),
                          !.pc = "home"]
                 ELSE [RftAfter(c) EXCEPT
                          !.final_aligner_presence = <<c.response, c.status>>,
                          !.emitted =
                              Append(c.emitted,
                                     <<"SignalTower", ",", "EFEM", ",",
                                       "Red", ",", "Flash">>),
                          !.pc = "except"]
    /\ UNCHANGED rftFrame

\* lines 730-736: the result of Home,EFEM is logged and nothing else
RftHome ==
    /\ rft.pc = "home"
    /\ \E c \in RftCall(<<"Home", ",", "EFEM">>) :
          rft' = [RftAfter(c) EXCEPT !.final_status_code = 199,
                                     !.pc = "finally"]
    /\ UNCHANGED rftFrame

\* except RuntimeError, lines 747-754
RftExcept ==
    /\ rft.pc = "except"
    /\ rft' = [rft EXCEPT
                  !.final_status_code = except_code("RuntimeError"),
                  !.emitted = Append(rft.emitted,
                                     <<"SignalTower", ",", "EFEM", ",",
                                       "Red", ",", "Flash">>),
                  !.pc = "finally"]
    /\ UNCHANGED rftFrame

\* finally, lines 767-771
RftFinally ==
    /\ rft.pc = "finally"
    /\ rft' = [rft EXCEPT !.is_running = FALSE, !.pc = "idle"]
    /\ UNCHANGED rftFrame

RftNext ==
    \/ RftStart
    \/ RftStop
    \/ RftMap
    \/ RftRobot
    \/ RftPut
    \/ RftAligner
    \/ RftAlignerGet
    \/ RftFinalRobot
    \/ RftFinalAligner
    \/ RftHome
    \/ RftExcept
    \/ RftFinally

SpecRft == RftInit /\ [][RftNext]_vars

\* a SmartPut to Loadport1, lines 673 and 699
IsLoadportPut(command) ==
    Len(command) = 9 /\ command[1] = "SmartPut" /\ command[7] = "Loadport1"

\* C22: within one run of RecoveryFlowThread the target slots of the SmartPut
\* commands to Loadport1 are pairwise distinct, and each of them is a slot
\* the map reply read at the start of the run marks empty.
C22_DistinctEmptyTargets ==
    LET puts == SelectSeq(rft.emitted, IsLoadportPut)
        parts == Split(RStrip(rft.map_response, {"$"}), ",")
    IN  /\ \A i, j \in 1..Len(puts) : i # j => puts[i][9] # puts[j][9]
        /\ \A i \in 1..Len(puts) :
              \E slot \in 1..MaxSlots :
                 /\ puts[i][9] =
                       (<<"1", "2", "3", "4", "5", "6", "7", "8", "9">>)[slot]
                 /\ FrameName(rft.map_response) = <<"GetMapResult">>
                 /\ Len(parts) = 3 + MaxSlots
                 /\ parts[3 + MaxSlots - slot + 1] = <<"0">>

\* a run that placed the wafer of an arm and the wafer of the aligner
C22_Witness ==
    /\ rft.pc = "idle"
    /\ rft.final_status_code = 199
    /\ Len(SelectSeq(rft.emitted, IsLoadportPut)) = 2

\* C23: once a wafer has to be placed and no empty slot is left, the run
\* sends no further SmartPut to Loadport1, never takes the status 199 and
\* ends with -101.
C23_NoSlotIsFatal ==
    [][rft'.no_slot_for # "none" =>
          /\ SelectSeq(rft'.emitted, IsLoadportPut)
                = SelectSeq(rft.emitted, IsLoadportPut)
          /\ rft'.pc \in {"except", "finally", "idle"}
          /\ rft'.final_status_code # 199
          /\ rft'.pc \in {"finally", "idle"}
                => rft'.final_status_code = -101]_vars

\* a run that took the wafer from the aligner and found no slot for it
C23_Witness ==
    /\ rft.no_slot_for = "aligner"
    /\ rft.pc = "idle"
    /\ rft.final_status_code = -101
    /\ \E i \in 1..Len(rft.emitted) : rft.emitted[i][1] = "SmartGet"

\* C24: a run that ends with 199 got OK for both final occupancy queries,
\* both replies showing the arms and the aligner empty, and sent
\* SignalTower,EFEM,Green,On and then Home,EFEM; every other run sent
\* SignalTower,EFEM,Red,Flash and ends with -101.
C24_SuccessOnlyWhenEmpty ==
    (rft.pc = "idle" /\ rft.final_status_code # 101) =>
        IF rft.final_status_code = 199
        THEN /\ rft.final_robot_presence =
                   << <<"CheckWaferPresence", ",", "Robot1", ",", "OK", ",",
                        "Absence", ",", "Absence", "$">>, "OK" >>
             /\ rft.final_aligner_presence =
                   << <<"CheckWaferPresence", ",", "Aligner1", ",", "OK",
                        ",", "Absence", "$">>, "OK" >>
             /\ \E i, j \in 1..Len(rft.emitted) :
                   /\ i < j
                   /\ rft.emitted[i] = <<"SignalTower", ",", "EFEM", ",",
                                         "Green", ",", "On">>
                   /\ rft.emitted[j] = <<"Home", ",", "EFEM">>
        ELSE /\ rft.final_status_code = -101
             /\ \E i \in 1..Len(rft.emitted) :
                   rft.emitted[i] = <<"SignalTower", ",", "EFEM", ",",
                                      "Red", ",", "Flash">>

\* C33: when the reply of the device to the occupancy query reports Presence
\* on an arm, the run sends exactly one SmartPut,Robot1,<arm>,Loadport1,<slot>
\* before the aligner check, <arm> being an arm reported Presence and <slot>
\* the first entry of the empty-slot list computed from the map; when no arm
\* reports Presence it sends no SmartPut before the aligner check.
C33_PutForReportedArm ==
    LET parts == PresenceParts(rft.robot_reply)
        puts == SelectSeq(rft.emitted, IsLoadportPut)
        empty == find_empty_slots(parse_map_result(rft.map_response))
    IN  rft.pc = "aligner" =>
           IF robot_has_wafer(rft.robot_reply)
           THEN /\ Len(puts) = 1
                /\ empty # <<>>
                /\ \E arm \in {"UpArm", "LowArm"} :
                      /\ puts[1] = PutCommand(arm, Head(empty))
                      /\ parts[IF arm = "UpArm" THEN 5 ELSE 4] = <<"Presence">>
           ELSE puts = <<>>

\* ------------------------------ import and export of the list (EFEM_015)
MaxFile == 4

\* characters of a file: a letter, a blank, the two comment marks, the end
\* of a line
FileChars == {"a", " ", "#", ";", "\n"}

\* the files of up to n characters
RECURSIVE Files(_)
Files(n) ==
    IF n = 0 THEN {<<>>}
    ELSE Files(n - 1)
         \cup {Append(w, c) : w \in {v \in Files(n - 1) : Len(v) = n - 1},
                              c \in FileChars}

\* f.readlines(), line 834: the lines with their terminators
RECURSIVE ReadLines(_)
ReadLines(text) ==
    IF text = <<>> THEN <<>>
    ELSE LET k == Find(text, "\n")
         IN  IF k = 0 THEN <<text>>
             ELSE <<SubSeq(text, 1, k)>>
                     \o ReadLines(SubSeq(text, k + 1, Len(text)))

\* lines 836-838: the lines the list box gets
Imported(lines) ==
    LET cmd(i) == Strip(lines[i], {" ", "\n"})
        kept(i) == cmd(i) # <<>> /\ ~StartsWith(cmd(i), <<";">>)
    IN  SelectSeq([i \in 1..Len(lines) |->
                      IF kept(i) THEN cmd(i) ELSE <<"\n">>],
                  LAMBDA c : c # <<"\n">>)

\* lines 848-849: every line of the list box, a line end after each
RECURSIVE Exported(_)
Exported(commands) ==
    IF commands = <<>> THEN <<>>
    ELSE Head(commands) \o <<"\n">> \o Exported(Tail(commands))

\* an empty list box (line 430) and a file to import
FileInit ==
    /\ PendingIdle
    /\ SeqIdle
    /\ CorrIdle
    /\ RecvIdle
    /\ ClientIdle
    /\ FlowIdle
    /\ rft = "none"
    /\ panel = "none"
    /\ direct = "none"
    /\ abort = "none"
    /\ flow16 = "none"
    /\ listfile \in {[pc |-> "start", import_text |-> text,
                      sequence_listbox |-> <<>>, export_text |-> <<>>] :
                        text \in Files(MaxFile)}

\* import_sequence, lines 830-841
import_sequence ==
    /\ listfile.pc = "start"
    /\ listfile' = [listfile EXCEPT
                       !.sequence_listbox =
                           Imported(ReadLines(listfile.import_text)),
                       !.pc = "imported"]
    /\ UNCHANGED <<earlierVars, rft, panel, direct, abort, flow16>>

\* export_sequence, lines 843-852
export_sequence ==
    /\ listfile.pc = "imported"
    /\ listfile' = [listfile EXCEPT
                       !.export_text = Exported(listfile.sequence_listbox),
                       !.pc = "exported"]
    /\ UNCHANGED <<earlierVars, rft, panel, direct, abort, flow16>>

FileNext ==
    \/ import_sequence
    \/ export_sequence

SpecFile == FileInit /\ [][FileNext]_vars

\* C29: a file imported and exported again has the content of the imported
\* file, but for line ends at its end: blank lines, comment lines and blanks
\* at the ends of a line are kept.
C29_ImportExportRoundTrip ==
    listfile.pc = "exported" =>
        RStrip(listfile.export_text, {"\n"})
            = RStrip(listfile.import_text, {"\n"})

\* ------------------------------------ the status labels (EFEM_022)
MaxStatusFields == 11

\* GetStatus,EFEM,OK and MaxStatusFields - 2 to MaxStatusFields fields 0 or 1
StatusResponses ==
    {<<"GetStatus", ",", "EFEM", ",", "OK", ",">> \o Join(fields, <<",">>)
         \o <<"$">> :
        fields \in UNION {[1..n -> {<<"0">>, <<"1">>}] :
                             n \in (MaxStatusFields - 2)..MaxStatusFields}}

\* the labels as built (lines 887 and 899) and a response to handle
StatusInit ==
    /\ PendingIdle
    /\ SeqIdle
    /\ CorrIdle
    /\ RecvIdle
    /\ ClientIdle
    /\ FlowIdle
    /\ rft = "none"
    /\ listfile = "none"
    /\ direct = "none"
    /\ abort = "none"
    /\ flow16 = "none"
    /\ panel \in {[response_data |-> response, efem_mode_label |-> "unknown",
                   efem_door_label |-> "unknown"] :
                     response \in StatusResponses}

\* update_status_from_response, lines 1517-1534, for a GetStatus response:
\* parts[10] and parts[12] of the code are fields 11 and 13 counted from one
update_status_from_response ==
    LET parts == Split(RStrip(Strip(panel.response_data, {" "}), {"$"}), ",")
    IN  /\ panel' =
              IF /\ parts[1] = <<"GetStatus">>
                 /\ parts[2] = <<"EFEM">>
                 /\ Len(parts) >= 13
                 /\ parts[3] = <<"OK">>
              THEN [panel EXCEPT
                       !.efem_mode_label =
                           IF parts[11] = <<"0">> THEN "Local" ELSE "Remote",
                       !.efem_door_label =
                           IF parts[13] = <<"0">> THEN "open" ELSE "closed"]
              ELSE panel
        /\ UNCHANGED <<earlierVars, rft, listfile, direct, abort, flow16>>

SpecStatus == StatusInit /\ [][update_status_from_response]_vars

\* C30: the status update takes the door state from the last field of the
\* response and the mode from field 10 (counted from zero); for
\* GetStatus,EFEM,OK,1,1,1,1,1,1,1,1,1,0,1 it shows the door closed and the
\* mode Remote.
C30_DoorFromLastField ==
    LET parts == Split(RStrip(panel.response_data, {"$"}), ",")
    IN  panel.efem_door_label # "unknown" =>
           /\ panel.efem_door_label =
                 (IF parts[Len(parts)] = <<"0">> THEN "open" ELSE "closed")
           /\ panel.efem_mode_label =
                 (IF parts[11] = <<"0">> THEN "Local" ELSE "Remote")

\* ------------------------------- send_command and its callers (EFEM_015)
MaxSends == 2

\* a failed write that queues nothing
NoNotice(queue) == queue

\* the socket write of send_command failed: lines 116-117 and 119-121
WriteFailure(queue) == Append(queue, Disconnect)

DirectInit ==
    /\ PendingIdle
    /\ SeqIdle
    /\ CorrIdle
    /\ RecvIdle
    /\ ClientIdle
    /\ FlowIdle
    /\ rft = "none"
    /\ listfile = "none"
    /\ panel = "none"
    /\ direct = [calls |-> 0, written |-> <<>>, returned |-> "none",
                 write_failed |-> FALSE]
    /\ abort = "none"
    /\ flow16 = "none"

\* execute_efem_action_directly (801-806) with send_command (105-121); the
\* combobox holds its first entry, Home,EFEM (lines 299-308)
execute_efem_action_directly ==
    /\ main_pc = "idle"
    /\ direct.calls < MaxSends
    /\ IF ~is_connected \/ ~efem_socket
       THEN /\ direct' = [direct EXCEPT !.calls = @ + 1,
                                        !.returned = "False"]
            /\ UNCHANGED message_queue
       ELSE \/ /\ direct' = [direct EXCEPT
                                !.calls = @ + 1,
                                !.written = Append(@, <<"Home", ",", "EFEM">>),
                                !.returned = "True"]
               /\ UNCHANGED message_queue
            \/ /\ Len(message_queue) < MaxQueue
               /\ message_queue' = WriteFailure(message_queue)
               /\ direct' = [direct EXCEPT !.calls = @ + 1,
                                           !.returned = "False",
                                           !.write_failed = TRUE]
    /\ UNCHANGED <<pendingVars, is_connected, efem_socket,
                   sequence_stop_flag, ui_pending, main_pc, disc_pc, noted>>
    /\ UNCHANGED buttonVars
    /\ UNCHANGED threadVars
    /\ UNCHANGED <<corrOnlyVars, recvVars, clientVars, flowVars, rft,
                   listfile, panel, abort, flow16>>

DirectNext ==
    \/ connect
    \/ disconnect
    \/ disconnect_efem_end
    \/ ReceiveEnd
    \/ CheckQueueDisconnect
    \/ CheckQueueDisconnectEnd
    \/ CheckQueueButtons
    \/ execute_efem_action_directly

\* check_queue runs again every 100 ms (line 876)
SpecDirect ==
    /\ DirectInit
    /\ [][DirectNext]_vars
    /\ WF_vars(CheckQueueDisconnect)
    /\ WF_vars(CheckQueueDisconnectEnd)

\* C26: send_command returns False and writes nothing when the link is not
\* open; when the write fails it returns False with a disconnect notice in
\* the queue, and the connection is closed in the end.
C26_SendFailureClosesLink ==
    /\ [][direct'.calls # direct.calls =>
            /\ (~is_connected \/ ~efem_socket) =>
                  /\ direct'.returned = "False"
                  /\ direct'.written = direct.written
                  /\ message_queue' = message_queue
            /\ (is_connected /\ efem_socket
                  /\ direct'.written = direct.written) =>
                  /\ direct'.returned = "False"
                  /\ InList(Disconnect, message_queue')
            /\ direct'.written # direct.written =>
                  direct'.returned = "True"]_vars
    /\ (direct.returned = "False" /\ is_connected
          /\ InList(Disconnect, message_queue)) ~> ~is_connected

\* a write failed and the link was closed by check_queue
C26_Witness ==
    /\ direct.write_failed
    /\ direct.returned = "False"
    /\ ~is_connected
    /\ ~efem_socket
    /\ message_queue = <<>>

\* -------------------- error codes and the flow they abort (efem_error_codes,
\* EFEM_022)
MaxCodeFields == 3

\* the words an error code is made of; "-" separates its fields
CodeAtoms == {"5004", "9999", "03", "01", "21", "77"}

\* the codes the device can send: one to MaxCodeFields fields
Codes ==
    UNION {{Join(fields, <<"-">>) :
               fields \in [1..n -> {<<a>> : a \in CodeAtoms}]} :
              n \in 1..MaxCodeFields}

\* ERROR_CODES of efem_error_codes.py with three of its entries (lines 8, 169
\* and 608); each description is one word of the model
ERROR_CODES ==
    [code \in {<<"0001">>, <<"5004">>, <<"03", "-", "0m(En)", "-", "21">>} |->
        IF code = <<"0001">> THEN <<"Undefine command">>
        ELSE IF code = <<"5004">> THEN <<"RFID read fail">>
        ELSE <<"Overcurrent">>]

\* the text returned for a code the catalog does not hold (line 743)
UnknownCode(error_code) == <<"unknown error code (">> \o error_code \o <<")">>

\* get_error_description, lines 714-743
get_error_description(error_code) ==
    IF error_code \in DOMAIN ERROR_CODES
    THEN ERROR_CODES[error_code]
    ELSE LET parts == Split(error_code, "-")
             generic_code_m == <<"03", "-", "0m(En)", "-">> \o parts[Len(parts)]
             generic_code_en == <<"03", "-", "En", "-">> \o parts[Len(parts)]
         IN  IF StartsWith(error_code, <<"03", "-">>) /\ Len(parts) = 3
             THEN IF generic_code_m \in DOMAIN ERROR_CODES
                  THEN ERROR_CODES[generic_code_m] \o <<" (Axis: ">>
                           \o parts[2] \o <<")">>
                  ELSE IF generic_code_en \in DOMAIN ERROR_CODES
                  THEN ERROR_CODES[generic_code_en] \o <<" (Axis: ">>
                           \o parts[2] \o <<")">>
                  ELSE UnknownCode(error_code)
             ELSE UnknownCode(error_code)

\* ERROR_CODES of EFEM_022.py (lines 29-47) with two of its entries
ERROR_CODES_APP ==
    [code \in {<<"0001">>, <<"5004">>} |->
        IF code = <<"0001">> THEN <<"Undefine command">>
        ELSE <<"RFID read fail">>]

ReadFoupID == <<"ReadFoupID", ",", "Loadport1">>

\* handle_error, lines 1504-1515: the line it logs
handle_error(error_data) ==
    LET parts == Split(RStrip(Strip(error_data, {" "}), {"$"}), ",")
        error_code == Strip(parts[Len(parts)], {" "})
        error_desc == IF error_code \in DOMAIN ERROR_CODES_APP
                      THEN ERROR_CODES_APP[error_code]
                      ELSE <<"unknown error code (">> \o error_code \o <<")">>
    IN  IF Len(parts) >= 4 /\ parts[Len(parts) - 1] = <<"Error">>
        THEN <<"command error: [">> \o parts[2] \o <<"] ">> \o parts[1]
                 \o <<" -> ">> \o error_desc
        ELSE <<"unparsed error response: ">> \o Strip(error_data, {" "})

\* the text of the RuntimeError of line 404
StepFiveReason(status) == <<"step 5 got no OK: ", status>>

AbortInit ==
    /\ PendingIdle
    /\ SeqIdle
    /\ CorrIdle
    /\ RecvIdle
    /\ ClientIdle
    /\ FlowIdle
    /\ rft = "none"
    /\ listfile = "none"
    /\ panel = "none"
    /\ direct = "none"
    /\ flow16 = "none"
    /\ abort \in {[code |-> code, pc |-> "idle", is_running |-> FALSE,
                   answered |-> FALSE, efem_response_queue |-> <<>>,
                   log |-> <<>>, description |-> None, status |-> "none",
                   reason |-> None, final_status_code |-> 0,
                   finished |-> <<>>] : code \in Codes}

abortFrame == <<earlierVars, rft, listfile, panel, direct, flow16>>

\* the call of get_error_description with the code of a reply (EFEM_015,
\* line 176)
DescribeCode ==
    /\ abort.description = None
    /\ abort' = [abort EXCEPT
                    !.description = get_error_description(abort.code)]
    /\ UNCHANGED abortFrame

\* run() up to the wait of step 5 (385-397 and 320-335)
AbortRun ==
    /\ abort.pc = "idle"
    /\ abort' = [abort EXCEPT !.pc = "wait", !.is_running = TRUE,
                    !.log = Append(@, <<"flow started">>)]
    /\ UNCHANGED abortFrame

\* the device answers ReadFoupID with an error and handle_received_data
\* (1398-1417) takes the frame: handle_error logs it and, while the thread
\* runs, set_efem_response (282-288) leaves it as the only item of the queue
AbortReceive ==
    LET data == ReadFoupID \o <<",", "Error", ",">> \o abort.code \o <<"$">>
        message == RStrip(Strip(data, {" "}), {"$"})
    IN  /\ abort.pc # "idle"
        /\ ~abort.answered
        /\ abort' = [abort EXCEPT
                        !.answered = TRUE,
                        !.log = Append(@, handle_error(message \o <<"$">>)),
                        !.efem_response_queue =
                            IF abort.pc # "done"
                            THEN <<message \o <<"$">>>> ELSE @]
        /\ UNCHANGED abortFrame

\* _wait_for_efem_response (298-307) returns the item of the queue and
\* _send_cmd_and_wait (337-353) its pair; line 404 raises
AbortWait ==
    /\ abort.pc = "wait"
    /\ abort.efem_response_queue # <<>>
    /\ LET status == send_cmd_result(Head(abort.efem_response_queue))[2]
       IN  abort' = [abort EXCEPT
                        !.pc = "except", !.efem_response_queue = <<>>,
                        !.status = status,
                        !.reason = StepFiveReason(status)]
    /\ UNCHANGED abortFrame

\* the wait ends after COMMAND_TIMEOUT with nothing in the queue (307)
AbortTimeout ==
    /\ abort.pc = "wait"
    /\ abort.efem_response_queue = <<>>
    /\ abort' = [abort EXCEPT
                    !.pc = "except",
                    !.status = send_cmd_result(None)[2],
                    !.reason = StepFiveReason(send_cmd_result(None)[2])]
    /\ UNCHANGED abortFrame

\* except RuntimeError, lines 481-484
AbortExcept ==
    /\ abort.pc = "except"
    /\ abort' = [abort EXCEPT
                    !.pc = "finally", !.final_status_code = -1,
                    !.log = Append(@, <<"flow aborted on error: ">>
                                          \o abort.reason)]
    /\ UNCHANGED abortFrame

\* finally, lines 489-495
AbortFinally ==
    /\ abort.pc = "finally"
    /\ abort' = [abort EXCEPT
                    !.pc = "done", !.is_running = FALSE,
                    !.finished = Append(@, abort.final_status_code)]
    /\ UNCHANGED abortFrame

AbortNext ==
    \/ DescribeCode
    \/ AbortRun
    \/ AbortReceive
    \/ AbortWait
    \/ AbortTimeout
    \/ AbortExcept
    \/ AbortFinally

SpecAbort == AbortInit /\ [][AbortNext]_vars

\* the run ended on the error reply and its reason carries the description
ReasonCarriesDescription ==
    (abort.pc = "done" /\ abort.status = "EFEM Error"
        /\ abort.code = <<"5004">>) =>
            /\ abort.finished = <<-1>>
            /\ HasSub(abort.reason, ERROR_CODES_APP[<<"5004">>])

\* the lookup gave the entry of a known code, and a text with the code in it
\* for any other
LookupIsTotal ==
    abort.description # None =>
        IF abort.code \in DOMAIN ERROR_CODES
        THEN abort.description = ERROR_CODES[abort.code]
        ELSE HasSub(abort.description, abort.code)

\* C31: when the device answers ReadFoupID with Error,5004 the flow run aborts
\* and the abort reason it reports carries the catalog description of 5004;
\* the description lookup returns the catalog entry of a known code and a
\* fallback text containing the code for any other, and never fails.
C31_AbortReasonDescribesCode ==
    /\ ReasonCarriesDescription
    /\ LookupIsTotal

\* ------------------- the frames of the lines of a sequence (EFEM_015)
MaxLineFile == 4

\* the words of a sequence file: the mark of the alternate addressing, a
\* command word, the separator, a blank, the comment mark, a line end, and
\* the two words of a Wait step
LineChars == {"@", "Load", ",", " ", "#", "\n", "Wait", "500"}

\* the files of up to n words
RECURSIVE LineFiles(_)
LineFiles(n) ==
    IF n = 0 THEN {<<>>}
    ELSE LineFiles(n - 1)
         \cup {Append(w, c) : w \in {v \in LineFiles(n - 1) : Len(v) = n - 1},
                              c \in LineChars}

\* variant: every frame starts with '#' alone
PlainFrame(command, use_at_prefix) == <<"#">> \o command \o <<"$">>

\* send_command, lines 109-110: the frame it writes
formatted_command(command, use_at_prefix) ==
    (IF use_at_prefix THEN <<"#", "@">> ELSE <<"#">>) \o command \o <<"$">>

\* an empty list box (line 430), a file to import, and no line run yet; steps
\* holds, for every Invoke line the thread came to, the line of the list box,
\* the name it registered (last_sent_command_base), the frame handed to
\* sendall and whether sendall took it
InvokeInit ==
    /\ PendingIdle
    /\ SeqIdle
    /\ CorrIdle
    /\ RecvIdle
    /\ ClientIdle
    /\ FlowIdle
    /\ rft = "none"
    /\ panel = "none"
    /\ direct = "none"
    /\ abort = "none"
    /\ flow16 = "none"
    /\ listfile \in {[pc |-> "start", import_text |-> text,
                      sequence_listbox |-> <<>>, export_text |-> <<>>,
                      commands |-> <<>>, i |-> 0, steps |-> <<>>] :
                        text \in LineFiles(MaxLineFile)}

invokeFrame == <<earlierVars, rft, panel, direct, abort, flow16>>

\* run_sequence on a connected link, lines 535-543: the thread gets a copy
\* of the lines; without lines nothing starts (538)
InvokeRun ==
    /\ listfile.pc = "imported"
    /\ listfile.sequence_listbox # <<>>
    /\ listfile' = [listfile EXCEPT
                       !.pc = "running", !.i = 1,
                       !.commands = listfile.sequence_listbox]
    /\ UNCHANGED invokeFrame

\* lines 559-576: a blank line, a comment or a Wait step sends nothing
InvokeSkip ==
    /\ listfile.pc = "running"
    /\ listfile.i <= Len(listfile.commands)
    /\ StepKind(listfile.commands[listfile.i]) # "invoke"
    /\ listfile' = [listfile EXCEPT !.i = @ + 1]
    /\ UNCHANGED invokeFrame

\* lines 579-593 with send_command (105-121): the thread registers the name
\* and sends; sendall takes the frame, or raises and the run ends (593)
InvokeSend ==
    /\ listfile.pc = "running"
    /\ listfile.i <= Len(listfile.commands)
    /\ StepKind(listfile.commands[listfile.i]) = "invoke"
    /\ LET cmd_line == listfile.commands[listfile.i]
           step(sent) ==
               [line |-> cmd_line,
                base |-> BaseCmd(cmd_line),
                frame |-> formatted_command(ActualCmd(cmd_line),
                                            UseAt(cmd_line)),
                sent |-> sent]
       IN  \/ listfile' = [listfile EXCEPT
                              !.steps = Append(@, step(TRUE)),
                              !.i = @ + 1]
           \/ listfile' = [listfile EXCEPT
                              !.steps = Append(@, step(FALSE)),
                              !.pc = "finished"]
    /\ UNCHANGED invokeFrame

\* the list is through and the run, not cycling, ends (lines 616-634)
InvokeEnd ==
    /\ listfile.pc = "running"
    /\ listfile.i > Len(listfile.commands)
    /\ listfile' = [listfile EXCEPT !.pc = "finished"]
    /\ UNCHANGED invokeFrame

InvokeNext ==
    \/ import_sequence
    \/ InvokeRun
    \/ InvokeSkip
    \/ InvokeSend
    \/ InvokeEnd

SpecInvoke == InvokeInit /\ [][InvokeNext]_vars

\* C32: for every Invoke line L of a sequence the frame written is '#', L
\* and '$', or '#@', L without its leading '@' and '$' when L starts with
\* '@'; the pending request registered for it is named by the first field,
\* up to the first comma, of the command without that '@'.
C32_FrameOfLine ==
    listfile.pc \in {"running", "finished"} =>
        \A k \in 1..Len(listfile.steps) :
            LET L == listfile.steps[k].line
                at == L # <<>> /\ Head(L) = "@"
                command == IF at THEN Tail(L) ELSE L
            IN  /\ listfile.steps[k].frame =
                      (IF at THEN <<"#", "@">> \o Tail(L) \o <<"$">>
                       ELSE <<"#">> \o L \o <<"$">>)
                /\ listfile.steps[k].base = Split(command, ",")[1]
                /\ L \in {listfile.commands[j] :
                             j \in 1..Len(listfile.commands)}

\* a line with the '@' mark and two fields was sent
C32_Witness ==
    /\ listfile.pc = "finished"
    /\ \E k \in 1..Len(listfile.steps) :
          /\ listfile.steps[k].sent
          /\ listfile.steps[k].line = <<"@", "Load", ",", "Load">>
          /\ listfile.steps[k].frame = <<"#", "@", "Load", ",", "Load", "$">>
          /\ listfile.steps[k].base = <<"Load">>

\* ------------------- FlowControlThread of EFEM_016 and its stop()
\* The two queues are queue.Queue(maxsize=1) (lines 218-219). The thread
\* waits on one queue at a time; the GUI thread runs one handler at a time
\* and runs none while it is inside a put that finds its queue full.
MaxSlots16 == 1

CommandStep == "command"
ConfirmStep == "confirm"

\* the wafer loop of run(), lines 348-420, for one slot: five commands, the
\* confirmation of the OCR text, two commands
SlotSteps == <<CommandStep, CommandStep, CommandStep, CommandStep,
               ConfirmStep, CommandStep, CommandStep>>

RECURSIVE WaferLoop(_)
WaferLoop(n) == IF n = 0 THEN <<>> ELSE SlotSteps \o WaferLoop(n - 1)

\* the waits of run() in their order, lines 305-426
RunSteps16 ==
    <<CommandStep, CommandStep, ConfirmStep, CommandStep, CommandStep,
      ConfirmStep>> \o WaferLoop(MaxSlots16) \o <<CommandStep>>

\* the frames handle_received_data hands to the thread (lines 1001-1011)
Replies16 == {<<"Load", ",", "Loadport1", ",", "OK", "$">>,
              <<"Load", ",", "Loadport1", ",", "Error", ",", "5004", "$">>}

\* _send_cmd_and_wait past its wait, lines 267-277
SendStatus16(response) ==
    IF HasSub(response, <<",", "Error", ",">>) THEN "EFEM Error"
    ELSE IF HasSub(response, <<",", "OK">>) THEN "OK"
    ELSE "Unexpected Response"

Flow16Init ==
    /\ PendingIdle
    /\ SeqIdle
    /\ CorrIdle
    /\ RecvIdle
    /\ ClientIdle
    /\ FlowIdle
    /\ rft = "none"
    /\ listfile = "none"
    /\ panel = "none"
    /\ direct = "none"
    /\ abort = "none"
    /\ flow16 = [pc |-> "run", is_running |-> FALSE, step |-> 1,
                 error_occurred |-> FALSE,
                 efem_response_queue |-> <<>>,
                 user_confirmation_queue |-> <<>>,
                 confirmation_visible |-> FALSE,
                 stop_pc |-> "idle", final_status |-> "none"]

flow16Frame == <<earlierVars, rft, listfile, panel, direct, abort>>

\* QThread.isRunning(): from start_flow (line 914) to the return of run()
Thread16Running == flow16.pc # "done"

\* the GUI thread is free to run a handler
Gui16Free == flow16.stop_pc = "idle"

\* run(), lines 296-299
Run16 ==
    /\ flow16.pc = "run"
    /\ flow16' = [flow16 EXCEPT !.is_running = TRUE, !.pc = "step"]
    /\ UNCHANGED flow16Frame

\* the next step of run(): the command is emitted (lines 264-265) or the
\* confirmation is requested (lines 281-282, shown by lines 1247-1251);
\* after an error or the last step the thread goes to its end
Step16 ==
    /\ flow16.pc = "step"
    /\ flow16' =
          IF flow16.error_occurred \/ flow16.step > Len(RunSteps16)
          THEN [flow16 EXCEPT !.pc = "end"]
          ELSE IF RunSteps16[flow16.step] = CommandStep
          THEN [flow16 EXCEPT !.pc = "wait"]
          ELSE [flow16 EXCEPT !.pc = "confirm",
                              !.confirmation_visible = TRUE]
    /\ UNCHANGED flow16Frame

\* _wait_for_efem_response (lines 245-251) and the rest of
\* _send_cmd_and_wait: the item of the queue, or None after the timeout
WaitResponse16 ==
    /\ flow16.pc = "wait"
    /\ LET status == IF flow16.efem_response_queue = <<>> THEN "Timeout"
                     ELSE SendStatus16(Head(flow16.efem_response_queue))
       IN  flow16' = [flow16 EXCEPT
                         !.efem_response_queue = <<>>,
                         !.error_occurred = (status # "OK"),
                         !.step = IF status = "OK" THEN @ + 1 ELSE @,
                         !.pc = "step"]
    /\ UNCHANGED flow16Frame

\* _wait_for_user_confirmation (lines 253-259) and the rest of
\* _request_user_confirm
WaitConfirmation16 ==
    /\ flow16.pc = "confirm"
    /\ LET confirmation == /\ flow16.user_confirmation_queue # <<>>
                        /\ Head(flow16.user_confirmation_queue)
       IN  flow16' = [flow16 EXCEPT
                         !.user_confirmation_queue = <<>>,
                         !.error_occurred = ~confirmation,
                         !.step = IF confirmation THEN @ + 1 ELSE @,
                         !.pc = "step"]
    /\ UNCHANGED flow16Frame

\* the end of run(), lines 429-433
End16 ==
    /\ flow16.pc = "end"
    /\ flow16' = [flow16 EXCEPT
                     !.is_running = FALSE,
                     !.final_status = IF flow16.error_occurred THEN "Error"
                                      ELSE "Completed",
                     !.pc = "done"]
    /\ UNCHANGED flow16Frame

\* handle_received_data with an OK or Error frame (lines 1001-1011) and
\* set_efem_response (225-233): the queue is emptied, then filled
SetEfemResponse16(data) ==
    /\ Gui16Free
    /\ Thread16Running
    /\ flow16' = [flow16 EXCEPT !.efem_response_queue = <<data>>]
    /\ UNCHANGED flow16Frame

\* confirm_data (lines 1253-1261) and set_user_confirmation (235-243)
ConfirmData16(confirmed_ok) ==
    /\ Gui16Free
    /\ flow16.confirmation_visible
    /\ flow16' = IF Thread16Running
                 THEN [flow16 EXCEPT
                          !.user_confirmation_queue = <<confirmed_ok>>,
                          !.confirmation_visible = FALSE]
                 ELSE flow16
    /\ flow16' # flow16
    /\ UNCHANGED flow16Frame

\* put on a queue of size 1 with block=True: it returns when the queue has room
HasRoom(queue) == Len(queue) < 1

\* stop_flow (lines 921-928) and stop() up to its first put (437-439)
StopFlow16 ==
    /\ Gui16Free
    /\ Thread16Running
    /\ flow16.is_running
    /\ flow16' = [flow16 EXCEPT !.is_running = FALSE,
                                !.stop_pc = "put_response"]
    /\ UNCHANGED flow16Frame

\* line 443: efem_response_queue.put("STOP_REQUESTED")
StopPutResponse16 ==
    /\ flow16.stop_pc = "put_response"
    /\ HasRoom(flow16.efem_response_queue)
    /\ flow16' = [flow16 EXCEPT
                     !.efem_response_queue = Append(@, StopRequested),
                     !.stop_pc = "put_confirmation"]
    /\ UNCHANGED flow16Frame

\* line 444: user_confirmation_queue.put(False), then stop() returns
StopPutConfirmation16 ==
    /\ flow16.stop_pc = "put_confirmation"
    /\ HasRoom(flow16.user_confirmation_queue)
    /\ flow16' = [flow16 EXCEPT
                     !.user_confirmation_queue = Append(@, FALSE),
                     !.stop_pc = "idle"]
    /\ UNCHANGED flow16Frame

Flow16Next ==
    \/ Run16
    \/ Step16
    \/ WaitResponse16
    \/ WaitConfirmation16
    \/ End16
    \/ \E data \in Replies16 : SetEfemResponse16(data)
    \/ \E confirmed_ok \in BOOLEAN : ConfirmData16(confirmed_ok)
    \/ StopFlow16
    \/ StopPutResponse16
    \/ StopPutConfirmation16

SpecFlow16 == Flow16Init /\ [][Flow16Next]_vars

\* C39: stop() of EFEM_016 never blocks the GUI thread: whenever it is at
\* one of its two puts the queue of that put has room, also when a reply or
\* a confirmation was left in it unconsumed.
C39_StopNeverBlocks ==
    /\ flow16.stop_pc = "put_response" =>
          HasRoom(flow16.efem_response_queue)
    /\ flow16.stop_pc = "put_confirmation" =>
          HasRoom(flow16.user_confirmation_queue)

====
